---- MODULE Spec2Model ----
(***************************************************************************)
(* AILang: the tree-walking executor (compiler.ts), the bytecode compiler  *)
(* and the bytecode virtual machine (bytecode.ts), modelled as state       *)
(* machines over JavaScript values held in a small heap.                   *)
(***************************************************************************)
EXTENDS Integers, Sequences, FiniteSets, TLC

(***************************************************************************)
(* Bounds of the model.                                                    *)
(***************************************************************************)
\* longest array of numbers drawn as an input
MaxLen == 3
\* largest number drawn as an array element
MaxElem == 3
\* number of statements after the optional %in block in a drawn program
MaxStmts == 2
\* how many times execute() is called on the same Program
MaxRuns == 2
\* largest decimal numeral that string-to-number conversion recognises
MaxNumeral == 20

(***************************************************************************)
(* JavaScript values.  Primitives are tagged records; arrays and objects   *)
(* are heap cells addressed by references, so that aliasing is visible.    *)
(***************************************************************************)
Undef == [t |-> "undefined"]
Null == [t |-> "null"]
Bool(b) == [t |-> "boolean", v |-> b]
Str(s) == [t |-> "string", v |-> s]
NaN == [t |-> "number", k |-> "nan"]
Inf(s) == [t |-> "number", k |-> "inf", s |-> s]
Ref(a) == [t |-> "ref", a |-> a]

Abs(i) == IF i < 0 THEN -i ELSE i

RECURSIVE GCD(_, _)
GCD(a, b) == IF b = 0 THEN a ELSE GCD(b, a % b)

\* a finite number n/d, kept in lowest terms with a positive denominator
Num(n, d) ==
  LET g == GCD(Abs(n), Abs(d))
      s == IF d < 0 THEN -1 ELSE 1
  IN [t |-> "number", k |-> "fin", n |-> (s * n) \div g, d |-> (s * d) \div g]

IsFin(v) == v.t = "number" /\ v.k = "fin"

\* the number -0: a zero that carries its sign
NegZero == [t |-> "number", k |-> "fin", n |-> 0, d |-> 1, neg |-> TRUE]
IsNegZero(v) == v.t = "number" /\ v.k = "fin" /\ "neg" \in DOMAIN v
IsRef(v) == v.t = "ref"

\* JSON texts as deep values: the payload of %in and the result of JSON.stringify
JArr(s) == [t |-> "array", v |-> s]
JObj(f) == [t |-> "object", v |-> f]

(***************************************************************************)
(* The heap: a sequence of cells, a cell being an array or an object.      *)
(***************************************************************************)
ArrCell(s) == [t |-> "array", v |-> s]
ObjCell(f) == [t |-> "object", v |-> f]

IsArrayRef(h, v) == IsRef(v) /\ h[v.a].t = "array"

\* compiler.ts isObject / bytecode.ts isObject
isObject(h, x) == IsRef(x) /\ h[x.a].t = "object"

\* x?.[p]: property read that tolerates undefined and null
GetProp(h, x, p) ==
  IF IsRef(x) /\ h[x.a].t = "object"
    THEN IF p \in DOMAIN h[x.a].v THEN h[x.a].v[p] ELSE Undef
    ELSE IF IsRef(x) /\ p = "length" THEN Num(Len(h[x.a].v), 1)
    ELSE IF x.t = "string" /\ p = "length" THEN [t |-> "unmodelled"]
    ELSE Undef

\* an ordering of a finite set of strings, used to walk the keys of an object
RECURSIVE SetToSeq(_)
SetToSeq(S) ==
  IF S = {} THEN <<>>
  ELSE LET x == CHOOSE y \in S : TRUE IN <<x>> \o SetToSeq(S \ {x})

\* the deep value a reference stands for
RECURSIVE Deref(_, _)
Deref(h, v) ==
  IF ~IsRef(v) THEN v
  ELSE IF h[v.a].t = "array"
    THEN JArr([i \in 1..Len(h[v.a].v) |-> Deref(h, h[v.a].v[i])])
    ELSE JObj([k \in DOMAIN h[v.a].v |-> Deref(h, h[v.a].v[k])])

\* JSON.stringify: undefined, NaN and the infinities become null inside an
\* array, fields holding undefined are dropped from an object
RECURSIVE Stringify(_)
Stringify(j) ==
  IF j.t = "array"
    THEN JArr([i \in 1..Len(j.v) |->
           IF j.v[i].t = "undefined" THEN Null ELSE Stringify(j.v[i])])
  ELSE IF j.t = "object"
    THEN LET keep == {k \in DOMAIN j.v : j.v[k].t # "undefined"}
         IN JObj([k \in keep |-> Stringify(j.v[k])])
  ELSE IF j.t = "number" /\ j.k # "fin" THEN Null
  ELSE IF IsNegZero(j) THEN Num(0, 1)
  ELSE j

\* JSON.parse: build fresh cells for a deep value; gives the new heap and the value
RECURSIVE Parse(_, _), ParseElems(_, _, _, _), ParseFields(_, _, _, _)
Parse(h, j) ==
  IF j.t = "array"
    THEN LET r == ParseElems(h, j.v, 1, <<>>)
         IN [h |-> Append(r.h, ArrCell(r.v)), v |-> Ref(Len(r.h) + 1)]
  ELSE IF j.t = "object"
    THEN LET r == ParseFields(h, j.v, SetToSeq(DOMAIN j.v), <<>>)
         IN [h |-> Append(r.h, ObjCell(r.v)), v |-> Ref(Len(r.h) + 1)]
  ELSE [h |-> h, v |-> j]
ParseElems(h, s, i, acc) ==
  IF i > Len(s) THEN [h |-> h, v |-> acc]
  ELSE LET r == Parse(h, s[i]) IN ParseElems(r.h, s, i + 1, Append(acc, r.v))
ParseFields(h, f, ks, acc) ==
  IF ks = <<>> THEN [h |-> h, v |-> acc]
  ELSE LET r == Parse(h, f[Head(ks)])
       IN ParseFields(r.h, f, Tail(ks), (Head(ks) :> r.v) @@ acc)

\* a clone that hands back the value it was given
cloneJSONShared(h, v) == [h |-> h, v |-> v]

\* compiler.ts cloneJSON / bytecode.ts cloneJSON
cloneJSON(h, v) ==
  IF v = Undef THEN [h |-> h, v |-> v]
  ELSE Parse(h, Stringify(Deref(h, v)))

(***************************************************************************)
(* JavaScript coercions and operators, as far as the language reaches      *)
(* them.  A conversion this model does not compute (the decimal text of a  *)
(* fraction, the order of two different strings, the number a string other *)
(* than a small numeral denotes) gives Unmodelled instead of a guess.      *)
(***************************************************************************)
Unmodelled == [t |-> "unmodelled"]

\* the decimal text of a fraction whose expansion ends: d has no prime factor but 2 and 5
RECURSIVE Terminating(_), FracDigits(_, _)
Terminating(d) ==
  IF d = 1 THEN TRUE
  ELSE IF d % 2 = 0 THEN Terminating(d \div 2)
  ELSE IF d % 5 = 0 THEN Terminating(d \div 5)
  ELSE FALSE
FracDigits(r, d) ==
  IF r = 0 THEN "" ELSE ToString((r * 10) \div d) \o FracDigits((r * 10) % d, d)

\* String(v) / the ToString of the language, as a string value
RECURSIVE ToStr(_, _), Join(_, _, _)
ToStr(h, v) ==
  CASE v.t = "string" -> v
    [] v.t = "undefined" -> Str("undefined")
    [] v.t = "null" -> Str("null")
    [] v.t = "boolean" -> Str(IF v.v THEN "true" ELSE "false")
    [] v.t = "number" ->
         IF v.k = "nan" THEN Str("NaN")
         ELSE IF v.k = "inf" THEN Str(IF v.s < 0 THEN "-Infinity" ELSE "Infinity")
         ELSE IF v.d = 1 THEN Str(ToString(v.n))
         ELSE IF Terminating(v.d)
           THEN Str((IF v.n < 0 THEN "-" ELSE "") \o ToString(Abs(v.n) \div v.d)
                    \o "." \o FracDigits(Abs(v.n) % v.d, v.d))
         ELSE Unmodelled
    [] v.t = "ref" ->
         IF h[v.a].t = "array" THEN Join(h, h[v.a].v, 1) ELSE Str("[object Object]")
    [] OTHER -> Unmodelled
\* Array.prototype.join(","): null and undefined elements give the empty string
Join(h, s, i) ==
  IF i > Len(s) THEN Str("")
  ELSE LET e == IF s[i].t \in {"undefined", "null"} THEN Str("") ELSE ToStr(h, s[i])
           r == Join(h, s, i + 1)
       IN IF e = Unmodelled \/ r = Unmodelled THEN Unmodelled
          ELSE IF i = Len(s) THEN e
          ELSE Str(e.v \o "," \o r.v)

ToPrimitive(h, v) == IF IsRef(v) THEN ToStr(h, v) ELSE v

\* Number(s) for a string: the empty string is 0, a numeral its value, other text NaN
StringToNumber(s) ==
  IF s = "" THEN Num(0, 1)
  ELSE IF \E i \in 0..MaxNumeral : ToString(i) = s
    THEN Num(CHOOSE i \in 0..MaxNumeral : ToString(i) = s, 1)
    ELSE NaN

\* Number(p) for a primitive
PrimitiveToNumber(p) ==
  CASE p.t = "number" -> p
    [] p.t = "undefined" -> NaN
    [] p.t = "null" -> Num(0, 1)
    [] p.t = "boolean" -> IF p.v THEN Num(1, 1) ELSE Num(0, 1)
    [] p.t = "string" -> StringToNumber(p.v)
    [] OTHER -> Unmodelled

ToNumber(h, v) == PrimitiveToNumber(ToPrimitive(h, v))

\* Boolean(v)
Truthy(v) ==
  CASE v.t \in {"undefined", "null"} -> FALSE
    [] v.t = "boolean" -> v.v
    [] v.t = "number" -> ~(v.k = "nan" \/ (v.k = "fin" /\ v.n = 0))
    [] v.t = "string" -> v.v # ""
    [] OTHER -> TRUE

Nullish(v) == v.t \in {"undefined", "null"}
\* a ?? b
Coalesce(a, b) == IF Nullish(a) THEN b ELSE a
\* a || b
OrElse(a, b) == IF Truthy(a) THEN a ELSE b

Sign(i) == IF i < 0 THEN -1 ELSE IF i > 0 THEN 1 ELSE 0
NumSign(x) == IF x.k = "inf" THEN x.s ELSE Sign(x.n)
\* the sign bit of a number that is not NaN: -1 or 1, also for the zeros
SignBit(x) == IF x.k = "inf" THEN x.s ELSE IF x.n < 0 \/ IsNegZero(x) THEN -1 ELSE 1
\* the zero of sign s
Zero(s) == IF s < 0 THEN NegZero ELSE Num(0, 1)

\* the abstract relational comparison x < y: "true", "false", "undefined"
\* (a NaN operand), or "unmodelled"
LtNumber(x, y) ==
  IF x = Unmodelled \/ y = Unmodelled THEN "unmodelled"
  ELSE IF x.k = "nan" \/ y.k = "nan" THEN "undefined"
  ELSE IF x.k = "inf" \/ y.k = "inf"
    THEN IF x = y THEN "false"
         ELSE IF x.k = "inf" THEN (IF x.s < 0 THEN "true" ELSE "false")
         ELSE (IF y.s > 0 THEN "true" ELSE "false")
  ELSE IF x.n * y.d < y.n * x.d THEN "true" ELSE "false"
LtPrimitive(pa, pb) ==
  IF pa = Unmodelled \/ pb = Unmodelled THEN "unmodelled"
  ELSE IF pa.t = "string" /\ pb.t = "string"
    THEN IF pa.v = pb.v THEN "false"
         ELSE IF pa.v = "" THEN "true"
         ELSE IF pb.v = "" THEN "false"
         ELSE "unmodelled"
  ELSE LtNumber(PrimitiveToNumber(pa), PrimitiveToNumber(pb))
Lt(h, a, b) == LtPrimitive(ToPrimitive(h, a), ToPrimitive(h, b))

JsLess(h, a, b) == Lt(h, a, b) = "true"
\* a comparison that also holds between equal operands
JsNotLess(h, a, b) == Lt(h, a, b) # "true"
JsGreater(h, a, b) == Lt(h, b, a) = "true"
\* a op b for the four ordering operators, from one comparison: a < b and
\* a >= b ask whether a is below b, a > b and a <= b whether b is below a
Relational(h, op, a, b) ==
  Lt(h, IF op \in {"<", ">="} THEN a ELSE b, IF op \in {"<", ">="} THEN b ELSE a)
    = (IF op \in {"<", ">"} THEN "true" ELSE "false")

\* a == b, the loose equality: one conversion of an operand at a time, until
\* both have the same type or no conversion applies
coerceOperand(h, a, b) ==
  IF a.t = "boolean" THEN <<ToNumber(h, a), b>>
  ELSE IF b.t = "boolean" THEN <<a, ToNumber(h, b)>>
  ELSE IF a.t = "number" /\ b.t = "string" THEN <<a, StringToNumber(b.v)>>
  ELSE IF a.t = "string" /\ b.t = "number" THEN <<StringToNumber(a.v), b>>
  ELSE IF IsRef(a) /\ ToStr(h, a) # Unmodelled THEN <<ToStr(h, a), b>>
  ELSE IF IsRef(b) /\ ToStr(h, b) # Unmodelled THEN <<a, ToStr(h, b)>>
  ELSE <<a, b>>
RECURSIVE LooseEq(_, _, _), LooseEqCoerced(_, _, _)
LooseEq(h, a, b) ==
  IF a.t = b.t
    THEN IF a.t = "number"
           THEN a.k # "nan" /\ (a = b \/ (IsFin(a) /\ IsFin(b) /\ a.n = 0 /\ b.n = 0))
           ELSE a = b
  ELSE IF Nullish(a) \/ Nullish(b) THEN Nullish(a) /\ Nullish(b)
  ELSE LooseEqCoerced(h, <<a, b>>, coerceOperand(h, a, b))
LooseEqCoerced(h, before, after) ==
  IF after = before THEN FALSE ELSE LooseEq(h, after[1], after[2])

\* the four arithmetic operators on numbers
NumAdd(x, y) ==
  IF x.k = "nan" \/ y.k = "nan" THEN NaN
  ELSE IF x.k = "inf" /\ y.k = "inf" THEN (IF x.s = y.s THEN x ELSE NaN)
  ELSE IF x.k = "inf" THEN x
  ELSE IF y.k = "inf" THEN y
  ELSE IF IsNegZero(x) /\ IsNegZero(y) THEN NegZero
  ELSE Num(x.n * y.d + y.n * x.d, x.d * y.d)
NumNeg(x) ==
  IF x.k = "nan" THEN NaN
  ELSE IF x.k = "inf" THEN Inf(-x.s)
  ELSE IF x.n = 0 THEN Zero(-SignBit(x))
  ELSE Num(-x.n, x.d)
NumMul(x, y) ==
  IF x.k = "nan" \/ y.k = "nan" THEN NaN
  ELSE IF x.k = "inf" \/ y.k = "inf"
    THEN IF NumSign(x) * NumSign(y) = 0 THEN NaN ELSE Inf(NumSign(x) * NumSign(y))
  ELSE IF x.n * y.n = 0 THEN Zero(SignBit(x) * SignBit(y))
  ELSE Num(x.n * y.n, x.d * y.d)
NumDiv(x, y) ==
  IF x.k = "nan" \/ y.k = "nan" THEN NaN
  ELSE IF x.k = "inf" THEN (IF y.k = "inf" THEN NaN ELSE Inf(x.s * SignBit(y)))
  ELSE IF y.k = "inf" THEN Zero(SignBit(x) * y.s)
  ELSE IF y.n = 0 THEN (IF x.n = 0 THEN NaN ELSE Inf(SignBit(x) * SignBit(y)))
  ELSE IF x.n = 0 THEN Zero(SignBit(x) * SignBit(y))
  ELSE Num(x.n * y.d, x.d * y.n)

\* l + r, l - r, l * r, l / r on arbitrary values
Concat(sl, sr) ==
  IF sl = Unmodelled \/ sr = Unmodelled THEN Unmodelled ELSE Str(sl.v \o sr.v)
Arith(op, x, y) ==
  IF x = Unmodelled \/ y = Unmodelled THEN Unmodelled
  ELSE CASE op = "+" -> NumAdd(x, y)
         [] op = "-" -> NumAdd(x, NumNeg(y))
         [] op = "*" -> NumMul(x, y)
         [] op = "/" -> NumDiv(x, y)
BinaryOpPrimitive(op, pl, pr) ==
  IF pl = Unmodelled \/ pr = Unmodelled THEN Unmodelled
  ELSE IF op = "+" /\ (pl.t = "string" \/ pr.t = "string")
    THEN Concat(ToStr(<<>>, pl), ToStr(<<>>, pr))
  ELSE Arith(op, PrimitiveToNumber(pl), PrimitiveToNumber(pr))
BinaryOp(h, op, l, r) == BinaryOpPrimitive(op, ToPrimitive(h, l), ToPrimitive(h, r))

(***************************************************************************)
(* The tree-walking executor (compiler.ts).  A context or an Outputs       *)
(* mapping is a function from the names it holds to values.  The locals of *)
(* one call are a record: heap h, context ctx, outputs, the console lines  *)
(* written by log, and error (the message thrown, "" while none).          *)
(***************************************************************************)
Get(obj, k) == IF k \in DOMAIN obj THEN obj[k] ELSE Undef
Put(obj, k, v) == (k :> v) @@ obj
Empty == <<>>

\* execute, lines 287-291: ctx.input = ast.input, then Object.assign(ctx, ast.input)
seedContext(h, input) ==
  IF isObject(h, input) THEN h[input.a].v @@ ("input" :> input)
  ELSE ("input" :> input)

inferListFromContext(h, ctx) ==
  IF IsArrayRef(h, Get(ctx, "input")) THEN Get(ctx, "input")
  ELSE IF IsArrayRef(h, Get(ctx, "list")) THEN Get(ctx, "list")
  ELSE IF isObject(h, Get(ctx, "input")) /\ IsArrayRef(h, GetProp(h, Get(ctx, "input"), "list"))
    THEN GetProp(h, Get(ctx, "input"), "list")
  ELSE Undef

\* getv of bubbleSort and nativeSort: key ? x?.[key] : x
getv(h, x, key) == IF Truthy(key) THEN GetProp(h, x, key.v) ELSE x

Swap(arr, j) == [arr EXCEPT ![j] = arr[j + 1], ![j + 1] = arr[j]]

\* the inner loop of bubbleSort from index j (0-based) of pass i
RECURSIVE bubblePass(_, _, _, _, _, _)
bubblePass(h, arr, key, i, j, swapped) ==
  IF j < Len(arr) - i - 1
    THEN IF JsGreater(h, getv(h, arr[j + 1], key), getv(h, arr[j + 2], key))
           THEN bubblePass(h, Swap(arr, j + 1), key, i, j + 1, TRUE)
           ELSE bubblePass(h, arr, key, i, j + 1, swapped)
    ELSE [arr |-> arr, swapped |-> swapped]

\* a bubble sort that stops after its first pass
bubbleLoopOnePass(h, arr, key, i) ==
  IF i < Len(arr) - 1 THEN bubblePass(h, arr, key, i, 0, FALSE).arr ELSE arr

\* the outer loop of bubbleSort from pass i
RECURSIVE bubbleLoop(_, _, _, _), bubbleNext(_, _, _, _)
bubbleLoop(h, arr, key, i) ==
  IF i < Len(arr) - 1 THEN bubbleNext(h, bubblePass(h, arr, key, i, 0, FALSE), key, i)
  ELSE arr
\* after pass i: `if (!swapped) break`, else the next pass
bubbleNext(h, p, key, i) ==
  IF ~p.swapped THEN p.arr ELSE bubbleLoop(h, p.arr, key, i + 1)

bubbleSort(h, arr, key) == bubbleLoop(h, arr, key, 0)

\* the comparator of nativeSort: -1, 1 or 0
compareValues(h, av, bv) ==
  IF JsLess(h, av, bv) THEN -1 ELSE IF JsGreater(h, av, bv) THEN 1 ELSE 0
nativeCompare(h, a, b, key) == compareValues(h, getv(h, a, key), getv(h, b, key))

\* Array.prototype.sort with that comparator: a stable sort, here by insertion
RECURSIVE insertSorted(_, _, _, _), nativeLoop(_, _, _, _)
insertSorted(h, sorted, x, key) ==
  IF sorted = <<>> THEN <<x>>
  ELSE IF nativeCompare(h, sorted[Len(sorted)], x, key) > 0
    THEN Append(insertSorted(h, SubSeq(sorted, 1, Len(sorted) - 1), x, key),
                sorted[Len(sorted)])
    ELSE Append(sorted, x)
nativeLoop(h, arr, key, acc) ==
  IF arr = <<>> THEN acc
  ELSE nativeLoop(h, Tail(arr), key, insertSorted(h, acc, Head(arr), key))

nativeSort(h, arr, key) == nativeLoop(h, arr, key, <<>>)

Throw(st, msg) == [st EXCEPT !.error = msg]

\* a sort that works on the list itself instead of on list.slice()
applySortListInPlace(st, algo, key, list) ==
  IF ~IsArrayRef(st.h, list)
    THEN Throw(st, "Model \"sort\" requires an array input")
  ELSE IF algo = Str("bubble")
    THEN [st EXCEPT !.h = [st.h EXCEPT ![list.a].v = bubbleSort(st.h, st.h[list.a].v, key)],
                    !.ctx = Put(st.ctx, "sorted", list)]
  ELSE IF algo = Str("native")
    THEN [st EXCEPT !.h = [st.h EXCEPT ![list.a].v = nativeSort(st.h, st.h[list.a].v, key)],
                    !.ctx = Put(st.ctx, "sorted", list)]
  ELSE Throw(st, "Unknown sort algorithm")

\* applyModel, case 'sort'
applySortList(st, algo, key, list) ==
  IF ~IsArrayRef(st.h, list)
    THEN Throw(st, "Model \"sort\" requires an array input")
  ELSE IF algo = Str("bubble")
    THEN [st EXCEPT !.h = Append(st.h, ArrCell(bubbleSort(st.h, st.h[list.a].v, key))),
                    !.ctx = Put(st.ctx, "sorted", Ref(Len(st.h) + 1))]
  ELSE IF algo = Str("native")
    THEN [st EXCEPT !.h = Append(st.h, ArrCell(nativeSort(st.h, st.h[list.a].v, key))),
                    !.ctx = Put(st.ctx, "sorted", Ref(Len(st.h) + 1))]
  ELSE Throw(st, "Unknown sort algorithm")
applySort(model, st) ==
  applySortList(st, OrElse(Get(model.args, "algorithm"), Str("bubble")),
                OrElse(Get(model.args, "key"), Str("")),
                inferListFromContext(st.h, st.ctx))

\* a tool model that starts a new request list on every call
applyToolNewList(model, st) ==
  LET argsAt == Len(st.h) + 1
      reqAt == Len(st.h) + 2
      h1 == st.h \o <<ObjCell(model.args),
                      ObjCell(("kind" :> Str("tool")) @@ ("args" :> Ref(argsAt)))>>
      h2 == Append(h1, ArrCell(<<>>))
      ctx1 == Put(st.ctx, "__requests", Ref(Len(h1) + 1))
      reqs == ctx1["__requests"]
      h3 == [h2 EXCEPT ![reqs.a].v = Append(@, Ref(reqAt))]
  IN [st EXCEPT !.h = h3, !.ctx = Put(ctx1, "plan", reqs)]

\* applyModel, case 'tool'
applyTool(model, st) ==
  LET argsAt == Len(st.h) + 1
      reqAt == Len(st.h) + 2
      h1 == st.h \o <<ObjCell(model.args),
                      ObjCell(("kind" :> Str("tool")) @@ ("args" :> Ref(argsAt)))>>
      had == IsArrayRef(st.h, Get(st.ctx, "__requests"))
      h2 == IF had THEN h1 ELSE Append(h1, ArrCell(<<>>))
      ctx1 == IF had THEN st.ctx ELSE Put(st.ctx, "__requests", Ref(Len(h1) + 1))
      reqs == ctx1["__requests"]
      h3 == [h2 EXCEPT ![reqs.a].v = Append(@, Ref(reqAt))]
  IN [st EXCEPT !.h = h3, !.ctx = Put(ctx1, "plan", reqs)]

applyModel(model, st) ==
  IF model.type = "sort" THEN applySort(model, st)
  ELSE IF model.type = "tool" THEN applyTool(model, st)
  ELSE Throw(st, "Unknown model type")

evalCondition(h, cond, ctx) ==
  IF ~Truthy(cond.op) THEN Truthy(Get(ctx, cond.left))
  ELSE IF cond.op.v \in {"=", "=="} THEN LooseEq(h, Get(ctx, cond.left), cond.right)
  ELSE IF cond.op.v \in {">=", "<=", ">", "<"}
    THEN Relational(h, cond.op.v, Get(ctx, cond.left), cond.right)
  ELSE FALSE

\* outputs[name] = c.v for the result c of a cloneJSON
storeOutput(st, name, c) == [st EXCEPT !.h = c.h, !.outputs = Put(st.outputs, name, c.v)]

\* an emit that never looks the name up in the context
runActionIgnoringName(action, st) ==
  CASE action.kind = "emit" ->
         storeOutput(st, action.name,
                     cloneJSON(st.h, Coalesce(Get(st.ctx, "sorted"), Get(st.ctx, "input"))))
    [] action.kind = "log" -> [st EXCEPT !.console = Append(st.console, action.message)]
    [] action.kind = "set" -> [st EXCEPT !.ctx = Put(st.ctx, action.name, action.value)]

runAction(action, st) ==
  CASE action.kind = "emit" ->
         storeOutput(st, action.name,
                     cloneJSON(st.h, Coalesce(Coalesce(Get(st.ctx, action.name),
                                                       Get(st.ctx, "sorted")),
                                              Get(st.ctx, "input"))))
    [] action.kind = "log" -> [st EXCEPT !.console = Append(st.console, action.message)]
    [] action.kind = "set" -> [st EXCEPT !.ctx = Put(st.ctx, action.name, action.value)]

selectPreferredValue(ctx) == Coalesce(Coalesce(Get(ctx, "sorted"), Get(ctx, "input")), Null)

RECURSIVE evalExpression(_, _, _)
evalExpression(h, e, ctx) ==
  CASE e.kind \in {"number", "string", "boolean"} -> e.value
    [] e.kind = "null" -> Null
    [] e.kind = "ident" -> Get(ctx, e.name)
    [] e.kind = "member" -> GetProp(h, evalExpression(h, e.object, ctx), e.property)
    [] e.kind = "binary" ->
         BinaryOp(h, e.op, evalExpression(h, e.left, ctx), evalExpression(h, e.right, ctx))

\* one iteration of the statement loop of execute, lines 293-327
executeStep(step, st) ==
  CASE step.kind = "model" -> applyModel(step.value, st)
    [] step.kind = "out" ->
         storeOutput(st, step.value, cloneJSON(st.h, selectPreferredValue(st.ctx)))
    [] step.kind = "action" ->
         IF evalCondition(st.h, step.value.condition, st.ctx)
           THEN runAction(step.value.action, st)
           ELSE st
    [] step.kind = "let" ->
         [st EXCEPT !.ctx = Put(st.ctx, step.value.name,
                                evalExpression(st.h, step.value.expr, st.ctx))]
    [] OTHER -> st

(***************************************************************************)
(* The bytecode compiler (bytecode.ts).  The instruction stream is a       *)
(* sequence of bytes; the header and the constant pool of a module are     *)
(* kept as typed fields and entries instead of their bytes.                *)
(***************************************************************************)
OpCONST == 1
OpGET_CTX == 2
OpSET_CTX == 3
OpMEMBER == 4
OpADD == 16
OpSUB == 17
OpMUL == 18
OpDIV == 19
OpCMP_EQ == 32
OpCMP_GE == 33
OpCMP_LE == 34
OpCMP_GT == 35
OpCMP_LT == 36
OpJUMP_IF_FALSE == 48
OpSORT == 64
OpEMIT_PREFERRED == 80
OpEMIT_TOP == 81
OpEND == 255
\* the key index of a SORT instruction without key, 0xFFFFFFFF, as its four bytes
NoKey == <<255, 255, 255, 255>>
\* 'A','L','B','C'
Magic == <<65, 76, 66, 67>>
Version == 1

\* ByteWriter.u32 / DataView.setUint32(.., true): four little-endian bytes of
\* a value below 2^31
U32(v) == <<v % 256, (v \div 256) % 256, (v \div 65536) % 256, (v \div 16777216) % 256>>
\* ByteWriter.i32 / DataView.setInt32(.., true): two's complement
I32(v) == IF v >= 0 THEN U32(v) ELSE [i \in 1..4 |-> 255 - U32(-v - 1)[i]]

\* DataView.getUint32(at, true) and getInt32(at, true); at is a 0-based offset
GetU32(code, at) ==
  code[at + 1] + 256 * code[at + 2] + 65536 * code[at + 3] + 16777216 * code[at + 4]
GetI32(code, at) ==
  IF code[at + 4] >= 128
    THEN -((255 - code[at + 1]) + 256 * (255 - code[at + 2]) + 65536 * (255 - code[at + 3])
           + 16777216 * (255 - code[at + 4])) - 1
    ELSE GetU32(code, at)

\* typeof val
TypeOf(v) ==
  CASE v.t = "null" -> "object"
    [] v.t = "ref" -> "object"
    [] OTHER -> v.t

\* ConstPool: list of values and map from key to index
EmptyPool == [list |-> <<>>, map |-> <<>>]

\* the key of ConstPool.getId: typeof val + ':' + (string ? val : JSON.stringify(val))
poolKey(v) ==
  TypeOf(v) \o ":" \o
    (IF v.t = "string" THEN v.v
     ELSE IF v.t = "undefined" THEN "undefined"
     ELSE ToStr(<<>>, Stringify(v)).v)

\* ConstPool.getId: the pool afterwards and the index
getIdByKey(pool, val, key) ==
  IF key \in DOMAIN pool.map
    THEN [pool |-> pool, id |-> pool.map[key]]
    ELSE [pool |-> [list |-> Append(pool.list, val),
                    map |-> (key :> Len(pool.list)) @@ pool.map],
          id |-> Len(pool.list)]
getId(pool, val) == getIdByKey(pool, val, poolKey(val))

\* w.u32(g.id) for the result g of a getId
writeId(w, g) == [pool |-> g.pool, code |-> w.code \o U32(g.id)]
\* w.u8(op)
writeOp(w, op) == [w EXCEPT !.code = Append(@, op)]

\* emit an opcode followed by the pool index of val
emitWithConst(w, op, val) == writeId(writeOp(w, op), getId(w.pool, val))

ArithOp(op) ==
  CASE op = "+" -> OpADD [] op = "-" -> OpSUB [] op = "*" -> OpMUL [] op = "/" -> OpDIV

RECURSIVE compileExpr(_, _)
compileExpr(expr, w) ==
  CASE expr.kind \in {"number", "string", "boolean"} -> emitWithConst(w, OpCONST, expr.value)
    [] expr.kind = "null" -> emitWithConst(w, OpCONST, Null)
    [] expr.kind = "ident" -> emitWithConst(w, OpGET_CTX, Str(expr.name))
    [] expr.kind = "member" ->
         emitWithConst(compileExpr(expr.object, w), OpMEMBER, Str(expr.property))
    [] expr.kind = "binary" ->
         writeOp(compileExpr(expr.right, compileExpr(expr.left, w)), ArithOp(expr.op))

\* a compileCond that writes no comparison after the two operands
compileCmpNone(op, w) == w
\* the switch of compileCond on the operator: the comparison written after
\* both operands, nothing for an operator it does not list
compileCmp(op, w) ==
  CASE op \in {"=", "=="} -> writeOp(w, OpCMP_EQ)
    [] op = ">=" -> writeOp(w, OpCMP_GE)
    [] op = "<=" -> writeOp(w, OpCMP_LE)
    [] op = ">" -> writeOp(w, OpCMP_GT)
    [] op = "<" -> writeOp(w, OpCMP_LT)
    [] OTHER -> w

compileCondRight(cond, w) ==
  IF Truthy(cond.op) THEN compileCmp(cond.op.v, emitWithConst(w, OpCONST, cond.right))
  ELSE w
compileCond(cond, w) == compileCondRight(cond, emitWithConst(w, OpGET_CTX, Str(cond.left)))

compileAction(a, w) ==
  CASE a.action.kind = "emit" -> emitWithConst(w, OpEMIT_PREFERRED, Str(a.action.name))
    [] a.action.kind = "log" -> w
    [] a.action.kind = "set" ->
         emitWithConst(emitWithConst(w, OpCONST, a.action.value), OpSET_CTX, Str(a.action.name))

\* buf.setInt32(at, v, true) on the code written so far
patchI32(code, at, v) ==
  [i \in 1..Len(code) |-> IF i \in (at + 1)..(at + 4) THEN I32(v)[i - at] ELSE code[i]]

\* one iteration of the statement loop of compileToBytecode, lines 99-141
\* the key operand of SORT, lines 107-108: the pool index of the key, or 0xFFFFFFFF
writeKey(w, key) ==
  IF Truthy(key) THEN writeId(w, getId(w.pool, key)) ELSE [w EXCEPT !.code = @ \o NoKey]

\* lines 104-109
compileSort(args, w) ==
  writeKey(emitWithConst(w, OpSORT, OrElse(Get(args, "algorithm"), Str("bubble"))),
           OrElse(Get(args, "key"), Str("")))

\* a patch that writes the offset of the jump instruction itself
patchJumpToItself(w, at) == [w EXCEPT !.code = patchI32(@, at, -5)]

\* a patch that measures the offset from the first byte of the offset field
patchJumpFromField(w, at) == [w EXCEPT !.code = patchI32(@, at, Len(w.code) - at)]

\* lines 129-134: the jump with a placeholder at offset `at`, the action, the patch
patchJump(w, at) == [w EXCEPT !.code = patchI32(@, at, Len(w.code) - (at + 4))]
compileJump(a, w, at) ==
  patchJump(compileAction(a, [w EXCEPT !.code = @ \o <<OpJUMP_IF_FALSE>> \o I32(0)]), at)
compileConditional(a, w) == compileJump(a, w, Len(w.code) + 1)

compileStep(step, w) ==
  CASE step.kind = "model" ->
         IF step.value.type = "sort" THEN compileSort(step.value.args, w) ELSE w
    [] step.kind = "out" -> emitWithConst(w, OpEMIT_PREFERRED, Str(step.value))
    [] step.kind = "let" ->
         emitWithConst(compileExpr(step.value.expr, w), OpSET_CTX, Str(step.value.name))
    [] step.kind = "action" ->
         compileConditional(step.value, compileCond(step.value.condition, w))
    [] OTHER -> w

RECURSIVE compileSteps(_, _, _)
compileSteps(steps, i, w) ==
  IF i > Len(steps) THEN w ELSE compileSteps(steps, i + 1, compileStep(steps[i], w))

\* encodeConstPool: one typed entry per pool value
encodeConst(v) ==
  CASE v.t = "null" -> [type |-> 0]
    [] v.t = "boolean" -> [type |-> 1, u8 |-> IF v.v THEN 1 ELSE 0]
    [] v.t = "number" -> [type |-> 2, f64 |-> v]
    [] v.t = "string" -> [type |-> 3, len |-> Len(v.v), utf8 |-> v.v]
    [] OTHER -> [type |-> 3, len |-> 0, utf8 |-> ""]

encodeConstPool(pool) == [i \in 1..Len(pool.list) |-> encodeConst(pool.list[i])]

\* lines 143-152: the header, the constant pool, the code and the END byte
assemble(w) ==
  [magic |-> Magic, version |-> Version, consts |-> encodeConstPool(w.pool),
   codeLen |-> Len(w.code), code |-> w.code, end |-> OpEND]

compileToBytecode(tree) ==
  assemble(compileSteps(tree.sourceOrder, 1, [pool |-> EmptyPool, code |-> <<>>]))

(***************************************************************************)
(* The bytecode virtual machine (bytecode.ts runBytecode).  The locals of  *)
(* one run are a record: heap h, ctx, outputs, the operand stack, the      *)
(* instruction pointer ip (an offset into the code) and error.             *)
(***************************************************************************)
\* a decode that accepts every version byte
decodeErrorAnyVersion(b) ==
  IF b.magic # Magic THEN "Bad bytecode magic"
  ELSE IF \E i \in 1..Len(b.consts) : b.consts[i].type \notin {0, 1, 2, 3} THEN "Unknown const type"
  ELSE ""

\* the header checks and the constant pool decode: "" or the message thrown
decodeError(b) ==
  IF b.magic # Magic THEN "Bad bytecode magic"
  ELSE IF b.version # 1 THEN "Unsupported bytecode version"
  ELSE IF \E i \in 1..Len(b.consts) : b.consts[i].type \notin {0, 1, 2, 3} THEN "Unknown const type"
  ELSE ""

decodeConst(e) ==
  CASE e.type = 0 -> Null
    [] e.type = 1 -> Bool(e.u8 # 0)
    [] e.type = 2 -> e.f64
    [] e.type = 3 -> Str(e.utf8)

decodeConsts(b) == [i \in 1..Len(b.consts) |-> decodeConst(b.consts[i])]

\* consts[idx]
constAt(consts, idx) == IF idx + 1 \in 1..Len(consts) THEN consts[idx + 1] ELSE Undef
\* getStr(idx), used as a property name
getStr(consts, idx) == ToStr(<<>>, constAt(consts, idx)).v

\* stack.pop(): undefined on an empty stack
Top(stack) == IF stack = <<>> THEN Undef ELSE stack[Len(stack)]
Pop(stack) == IF stack = <<>> THEN stack ELSE SubSeq(stack, 1, Len(stack) - 1)
Top2(stack) == Top(Pop(stack))
Pop2(stack) == Pop(Pop(stack))

Flag(b) == IF b THEN Num(1, 1) ELSE Num(0, 1)

\* the SORT instruction, line 284
vmSortList(st, algo, key, list) ==
  IF ~IsArrayRef(st.h, list)
    THEN Throw(st, "Model \"sort\" requires an array input")
    ELSE [st EXCEPT !.h = Append(st.h, ArrCell(IF algo = Str("native")
                                                 THEN nativeSort(st.h, st.h[list.a].v, key)
                                                 ELSE bubbleSort(st.h, st.h[list.a].v, key))),
                    !.ctx = Put(st.ctx, "sorted", Ref(Len(st.h) + 1)),
                    !.ip = st.ip + 9]
vmSort(consts, code, st) ==
  vmSortList(st, constAt(consts, GetU32(code, st.ip + 1)),
             IF SubSeq(code, st.ip + 6, st.ip + 9) = NoKey THEN Undef
             ELSE Str(getStr(consts, GetU32(code, st.ip + 5))),
             inferListFromContext(st.h, st.ctx))

\* the two-operand instructions, lines 273-281: the value pushed for operands a, b
opSymbol(op) ==
  CASE op = OpADD -> "+" [] op = OpSUB -> "-" [] op = OpMUL -> "*" [] op = OpDIV -> "/"
    [] op = OpCMP_GE -> ">=" [] op = OpCMP_LE -> "<=" [] op = OpCMP_GT -> ">"
    [] op = OpCMP_LT -> "<"
vmBinary(h, op, a, b) ==
  IF op \in {OpADD, OpSUB, OpMUL, OpDIV} THEN BinaryOp(h, opSymbol(op), a, b)
  ELSE IF op = OpCMP_EQ THEN Flag(LooseEq(h, a, b))
  ELSE Flag(Relational(h, opSymbol(op), a, b))

\* EMIT_PREFERRED, line 285
vmEmitPreferred(st, name) ==
  storeOutput(st, name,
              cloneJSON(st.h, Coalesce(Coalesce(Get(st.ctx, name), Get(st.ctx, "sorted")),
                                       Get(st.ctx, "input"))))

\* a default case that steps over the byte it does not recognise
vmDefaultSkip(code, st) == [st EXCEPT !.ip = st.ip + 1]

\* the default case of the dispatch, line 287: ip = codeEnd
vmDefault(code, st) == [st EXCEPT !.ip = Len(code)]

\* one iteration of the dispatch loop, lines 267-289
vmDispatch(consts, code, st, op, arg) ==
     CASE op = OpCONST ->
            [st EXCEPT !.stack = Append(@, constAt(consts, arg)), !.ip = st.ip + 5]
       [] op = OpGET_CTX ->
            [st EXCEPT !.stack = Append(@, Get(st.ctx, getStr(consts, arg))), !.ip = st.ip + 5]
       [] op = OpSET_CTX ->
            [st EXCEPT !.ctx = Put(st.ctx, getStr(consts, arg), Top(st.stack)),
                       !.stack = Pop(@), !.ip = st.ip + 5]
       [] op = OpMEMBER ->
            [st EXCEPT !.stack = Append(Pop(@), GetProp(st.h, Top(st.stack), getStr(consts, arg))),
                       !.ip = st.ip + 5]
       [] op \in {OpADD, OpSUB, OpMUL, OpDIV, OpCMP_EQ, OpCMP_GE, OpCMP_LE, OpCMP_GT, OpCMP_LT} ->
            [st EXCEPT !.stack = Append(Pop2(@), vmBinary(st.h, op, Top2(st.stack), Top(st.stack))),
                       !.ip = st.ip + 1]
       [] op = OpJUMP_IF_FALSE ->
            [st EXCEPT !.stack = Pop(@),
                       !.ip = IF ~Truthy(Top(st.stack))
                                THEN st.ip + 5 + GetI32(code, st.ip + 1)
                                ELSE st.ip + 5]
       [] op = OpSORT -> vmSort(consts, code, st)
       [] op = OpEMIT_PREFERRED ->
            [vmEmitPreferred(st, getStr(consts, arg)) EXCEPT !.ip = st.ip + 5]
       [] op = OpEMIT_TOP ->
            [storeOutput(st, getStr(consts, arg), cloneJSON(st.h, Top(st.stack)))
               EXCEPT !.stack = Pop(@), !.ip = st.ip + 5]
       [] OTHER -> vmDefault(code, st)
vmStep(consts, code, st) ==
  vmDispatch(consts, code, st, code[st.ip + 1], GetU32(code, st.ip + 1))

\* runBytecode, lines 249-252: the context a run starts from
vmSeedContext(h, input) ==
  IF input = Undef THEN Empty ELSE seedContext(h, input)

(***************************************************************************)
(* Programs and inputs the model draws from.  A statement is a ParsedItem  *)
(* of compiler.ts as parseSource builds it.                                *)
(***************************************************************************)
N(i) == Num(i, 1)
NoOp == Undef

Model(type, args) == [kind |-> "model", value |-> [type |-> type, args |-> args]]
Out(name) == [kind |-> "out", value |-> name]
Cond(left, op, right) == [left |-> left, op |-> op, right |-> right]
Action(cond, act) == [kind |-> "action", value |-> [condition |-> cond, action |-> act]]
Emit(name) == [kind |-> "emit", name |-> name]
Log(msg) == [kind |-> "log", message |-> msg]
Set(name, v) == [kind |-> "set", name |-> name, value |-> v]
Let(name, e) == [kind |-> "let", value |-> [name |-> name, expr |-> e]]
Ident(name) == [kind |-> "ident", name |-> name]
Number(v) == [kind |-> "number", value |-> v]
StringLit(v) == [kind |-> "string", value |-> Str(v)]
BooleanLit(b) == [kind |-> "boolean", value |-> Bool(b)]
NullLit == [kind |-> "null"]
Member(o, prop) == [kind |-> "member", object |-> o, property |-> prop]
Binary(op, l, r) == [kind |-> "binary", op |-> op, left |-> l, right |-> r]

\* %model lines
ModelStmts ==
  { Model("sort", ("algorithm" :> Str("bubble"))),
    Model("sort", Empty),
    Model("sort", ("algorithm" :> Str("native"))),
    Model("sort", ("algorithm" :> Str("quick"))),
    Model("tool", ("name" :> Str("fs.write"))),
    Model("classify", Empty) }

\* %out lines
OutStmts == { Out("sorted"), Out("x") }

\* !if lines
ActionStmts ==
  { Action(Cond("confidence", Str(">="), Num(4, 5)), Emit("high")),
    Action(Cond("confidence", Str(">="), Num(4, 5)), Emit("confidence")),
    Action(Cond("z", Str(">="), N(10)), Emit("z")),
    Action(Cond("x", NoOp, Undef), Set("z", N(10))),
    Action(Cond("x", Str("=="), Str("3")), Log("three")) }

\* let lines
LetStmts ==
  { Let("z", Binary("+", Binary("*", Ident("x"), Number(N(2))), Member(Ident("obj"), "y"))),
    Let("x", Binary("/", Ident("input"), Number(N(2)))),
    Let("list", Number(N(7))),
    Let("d", Binary("-", Member(Ident("obj"), "y"), Ident("x"))),
    Let("s", Binary("+", Binary("+", StringLit("1"), Number(N(1))),
                         Binary("*", BooleanLit(TRUE), NullLit))),
    Let("z", Binary("+", Number(N(0)), Binary("/", Number(N(1)), Number(NegZero)))) }

\* +node, ->edge and ?cond lines: retained by the parser, never executed
DeclStmts ==
  { [kind |-> "node", value |-> [name |-> "a", type |-> "t"]] }

Stmts == ModelStmts \cup OutStmts \cup ActionStmts \cup LetStmts \cup DeclStmts

Count(seq, kind) == Cardinality({i \in 1..Len(seq) : seq[i].kind = kind})

\* statement lists with at most one %model and one %out, as parseSource accepts
StmtLists ==
  UNION { { q \in [1..n -> Stmts] : Count(q, "model") <= 1 /\ Count(q, "out") <= 1 }
          : n \in 0..MaxStmts }

Confidence(c) ==
  JObj(("list" :> JArr(<<N(9), N(1), N(5)>>)) @@ ("confidence" :> c))

\* %in payloads (Undef: the program has no %in block)
Payloads ==
  { Undef,
    N(7),
    JArr(<<N(9), N(1), N(5), N(6), N(2), N(5)>>),
    Confidence(Num(23, 25)),
    Confidence(Num(1, 2)),
    JObj(("x" :> N(3)) @@ ("obj" :> JObj(("y" :> N(4))))),
    JObj(("x" :> N(2)) @@ ("obj" :> Null)),
    JObj(("input" :> N(5)) @@ ("x" :> N(1))),
    JObj(("input" :> JArr(<<N(2), N(1)>>)) @@ ("list" :> JArr(<<N(3), N(1)>>))),
    JObj(("sorted" :> JArr(<<N(1), N(2)>>))),
    JObj(("__requests" :> JArr(<<>>))) }

\* arrays of numbers
NumberArrays ==
  { JArr(q) : q \in UNION { [1..n -> {N(i) : i \in 1..MaxElem}] : n \in 0..MaxLen } }

SortLists ==
  { <<m, o>> : m \in {x \in ModelStmts : x.value.type = "sort"}, o \in {Out("sorted")} }

\* arrays of objects for a sort by the key k: the i-th element is
\* { k: a key value, id: i }, or { id: i } without the key
KeyValues == {N(1), N(2), Undef}
KeyedElem(kv, i) ==
  IF kv = Undef THEN JObj(("id" :> N(i))) ELSE JObj(("k" :> kv) @@ ("id" :> N(i)))
KeyedArrays ==
  { JArr([i \in 1..Len(q) |-> KeyedElem(q[i], i)])
      : q \in UNION { [1..n -> KeyValues] : n \in 0..MaxLen } }

KeyedSortLists ==
  { <<m, o>> : m \in { Model("sort", ("key" :> Str("k"))),
                       Model("sort", ("algorithm" :> Str("bubble")) @@ ("key" :> Str("k"))) },
               o \in {Out("sorted")} }

\* the (payload, statements) pairs the model draws
Sources ==
  { [input |-> j, stmts |-> q] : j \in Payloads, q \in StmtLists }
  \cup { [input |-> j, stmts |-> q] : j \in NumberArrays, q \in SortLists }
  \cup { [input |-> j, stmts |-> q] : j \in KeyedArrays, q \in KeyedSortLists }

(***************************************************************************)
(* The parser (compiler.ts parseSource and its helpers), on the characters *)
(* of the source.  A text is a string, s[i] its i-th character counted     *)
(* from 1; a regular expression of the code is modelled by the scan it     *)
(* performs.                                                               *)
(***************************************************************************)
Digit == {"0", "1", "2", "3", "4", "5", "6", "7", "8", "9"}
\* [A-Za-z_]
Alpha ==
  {"a", "b", "c", "d", "e", "f", "g", "h", "i", "j", "k", "l", "m",
   "n", "o", "p", "q", "r", "s", "t", "u", "v", "w", "x", "y", "z",
   "A", "B", "C", "D", "E", "F", "G", "H", "I", "J", "K", "L", "M",
   "N", "O", "P", "Q", "R", "S", "T", "U", "V", "W", "X", "Y", "Z", "_"}
\* \w
Word == Alpha \cup Digit
\* [\w-]
IdentChar == Word \cup {"-"}
\* \s, as far as a line or a payload holds it
Space == {" ", "\t", "\n", "\r"}
Quote == {"\"", "'"}

\* s[i - 1] of the code, "" past either end
Ch(s, i) == IF i \in 1..Len(s) THEN SubSeq(s, i, i) ELSE ""
\* s.slice(i - 1)
From(s, i) == SubSeq(s, i, Len(s))
\* s.startsWith(p)
StartsWith(s, p) == Len(s) >= Len(p) /\ SubSeq(s, 1, Len(p)) = p
\* whether p stands in s at index i
At(s, i, p) == i >= 1 /\ i + Len(p) - 1 <= Len(s) /\ SubSeq(s, i, i + Len(p) - 1) = p

\* the first index from i on whose character is outside the class: the end
\* of a greedy run class*
RECURSIVE SkipWhile(_, _, _)
SkipWhile(s, i, class) == IF Ch(s, i) \in class THEN SkipWhile(s, i + 1, class) ELSE i
\* the last index up to i whose character is outside the class
RECURSIVE SkipBack(_, _, _)
SkipBack(s, i, class) == IF Ch(s, i) \in class THEN SkipBack(s, i - 1, class) ELSE i
\* the first index from i on holding character c, 0 if there is none
RECURSIVE IndexOf(_, _, _)
IndexOf(s, i, c) ==
  IF i > Len(s) THEN 0 ELSE IF Ch(s, i) = c THEN i ELSE IndexOf(s, i + 1, c)

\* s.trim()
Trim(s) == SubSeq(s, SkipWhile(s, 1, Space), SkipBack(s, Len(s), Space))

\* the end of an identifier [A-Za-z_][\w-]* starting at i: the index after
\* it, i itself when no identifier starts there
IdentEnd(s, i) == IF Ch(s, i) \in Alpha THEN SkipWhile(s, i + 1, IdentChar) ELSE i

\* the value of a run of decimal digits s[i..j-1], 0 for the empty run
RECURSIVE DigitsValue(_, _, _, _)
DigitsValue(s, i, j, acc) ==
  IF i >= j THEN acc
  ELSE DigitsValue(s, i + 1, j, acc * 10 + (CHOOSE d \in 0..9 : ToString(d) = Ch(s, i)))
RECURSIVE Pow10(_)
Pow10(k) == IF k <= 0 THEN 1 ELSE 10 * Pow10(k - 1)

\* Number(buf) for a text [+-]? digits* ( . digits* )?: the digits before
\* and after the point as a fraction, NaN when the text holds no digit
NumberOf(s) ==
  LET from == IF Ch(s, 1) \in {"+", "-"} THEN 2 ELSE 1
      dot == SkipWhile(s, from, Digit)
      frac == IF dot > Len(s) THEN 0 ELSE Len(s) - dot
      digits == DigitsValue(s, from, dot, 0) * Pow10(frac) + DigitsValue(s, dot + 1, Len(s) + 1, 0)
  IN IF (dot - from) + frac = 0 THEN NaN
     ELSE IF digits = 0 THEN Zero(IF Ch(s, 1) = "-" THEN -1 ELSE 1)
     ELSE Num((IF Ch(s, 1) = "-" THEN -1 ELSE 1) * digits, Pow10(frac))

\* stripQuotes: one quote character off the front, then one off the end
stripQuotes(s) ==
  LET t == IF Ch(s, 1) \in Quote THEN From(s, 2) ELSE s
  IN IF Ch(t, Len(t)) \in Quote THEN SubSeq(t, 1, Len(t) - 1) ELSE t

\* /^[+-]?\d+(\.\d+)?$/
IsNumeric(t) ==
  LET from == IF Ch(t, 1) \in {"+", "-"} THEN 2 ELSE 1
      e == SkipWhile(t, from, Digit)
  IN /\ e > from
     /\ \/ e = Len(t) + 1
        \/ Ch(t, e) = "." /\ e + 1 <= Len(t) /\ SkipWhile(t, e + 1, Digit) = Len(t) + 1

parseScalar(txt) ==
  LET t == Trim(txt)
  IN IF t = "true" THEN Bool(TRUE)
     ELSE IF t = "false" THEN Bool(FALSE)
     ELSE IF t = "null" THEN Null
     ELSE IF (Ch(t, 1) = "\"" /\ Ch(t, Len(t)) = "\"") \/ (Ch(t, 1) = "'" /\ Ch(t, Len(t)) = "'")
       THEN Str(stripQuotes(t))
     ELSE IF IsNumeric(t) THEN NumberOf(t)
     ELSE Str(t)

(***************************************************************************)
(* parseExpression.  A parsing function gives [err |-> message] when it    *)
(* throws, else what it returns and the index i it has advanced to.        *)
(***************************************************************************)
Fail(msg) == [err |-> msg]
Parsed(e, i) == [err |-> "", expr |-> e, i |-> i]

\* sign, digits, then a point and digits
parseNumber(s, i) ==
  LET e == SkipWhile(s, IF Ch(s, i) \in {"+", "-"} THEN i + 1 ELSE i, Digit)
      end == IF Ch(s, e) = "." THEN SkipWhile(s, e + 1, Digit) ELSE e
      buf == SubSeq(s, i, end - 1)
  IN IF buf \in {"", "+", "-"} THEN Fail("Invalid number in expression")
     ELSE Parsed(Number(NumberOf(buf)), end)

\* from the quote at i to the next same quote
parseString(s, i) ==
  LET close == IndexOf(s, i + 1, Ch(s, i))
  IN IF close = 0 THEN Fail("Unterminated string")
     ELSE Parsed([kind |-> "string", value |-> Str(SubSeq(s, i + 1, close - 1))], close + 1)

\* gives the name instead of an expression
parseIdentifier(s, i) ==
  LET j == SkipWhile(s, i, Space)
      e == IdentEnd(s, j)
  IN IF e = j THEN Fail("Expected identifier in expression")
     ELSE [err |-> "", name |-> SubSeq(s, j, e - 1), i |-> e]

\* parsePrimary, the member loop of lines 529-538: cur is the expression so far
RECURSIVE parseMembers(_, _)
parseMembers(s, cur) ==
  LET k == SkipWhile(s, cur.i, Space)
      prop == parseIdentifier(s, k + 1)
  IN IF Ch(s, k) # "." THEN Parsed(cur.expr, k)
     ELSE IF prop.err # "" THEN prop
     ELSE parseMembers(s, Parsed(Member(cur.expr, prop.name), prop.i))

parsePrimary(s, i) ==
  LET j == SkipWhile(s, i, Space)
      id == parseIdentifier(s, j)
  IN IF Ch(s, j) \in Quote THEN parseString(s, j)
     ELSE IF Ch(s, j) \in Digit \cup {"+", "-"} THEN parseNumber(s, j)
     ELSE IF id.err # "" THEN id
     ELSE IF id.name = "true" THEN Parsed([kind |-> "boolean", value |-> Bool(TRUE)], id.i)
     ELSE IF id.name = "false" THEN Parsed([kind |-> "boolean", value |-> Bool(FALSE)], id.i)
     ELSE IF id.name = "null" THEN Parsed([kind |-> "null"], id.i)
     ELSE parseMembers(s, Parsed(Ident(id.name), id.i))

\* a multiplicative level that takes the additive operators as well
MulDivAtAnyOperator(s, k) ==
  IF Ch(s, k) \in {"*", "/", "+", "-"} THEN [op |-> Ch(s, k), at |-> k + 1]
  ELSE [op |-> "", at |-> k]

\* parseMulDiv, the test of its loop: the operator at k, if it is one of * and /
MulDivAt(s, k) ==
  IF Ch(s, k) \in {"*", "/"} THEN [op |-> Ch(s, k), at |-> k + 1]
  ELSE [op |-> "", at |-> k]

\* parseMulDiv, its loop: left is the expression so far
RECURSIVE MulDivLoop(_, _)
MulDivLoop(s, left) ==
  LET t == MulDivAt(s, SkipWhile(s, left.i, Space))
      right == parsePrimary(s, t.at)
  IN IF left.err # "" THEN left
     ELSE IF t.op = "" THEN Parsed(left.expr, t.at)
     ELSE IF right.err # "" THEN right
     ELSE MulDivLoop(s, Parsed(Binary(t.op, left.expr, right.expr), right.i))
parseMulDiv(s, i) == MulDivLoop(s, parsePrimary(s, i))

\* parseAddSub, its loop: left is the expression so far
RECURSIVE AddSubLoop(_, _)
AddSubLoop(s, left) ==
  LET k == SkipWhile(s, left.i, Space)
      right == parseMulDiv(s, k + 1)
  IN IF left.err # "" THEN left
     ELSE IF Ch(s, k) \notin {"+", "-"} THEN Parsed(left.expr, k)
     ELSE IF right.err # "" THEN right
     ELSE AddSubLoop(s, Parsed(Binary(Ch(s, k), left.expr, right.expr), right.i))
parseAddSub(s, i) == AddSubLoop(s, parseMulDiv(s, i))

\* parseExpression, lines 600-603, on the trimmed text
ExpressionEnd(s, r) ==
  IF r.err # "" THEN r
  ELSE IF SkipWhile(s, r.i, Space) <= Len(s) THEN Fail("Unexpected tokens at end of expression")
  ELSE r
parseExpression(text) == ExpressionEnd(Trim(text), parseAddSub(Trim(text), 1))

(***************************************************************************)
(* Conditions, actions and the statement lines.  A function that can throw *)
(* gives [err |-> message], else err = "" and what it returns.             *)
(***************************************************************************)
\* the alternation (==|=|>=|<=|>|<)? at index k: the first alternative that
\* stands there, "" when none does
OperatorAt(s, k) ==
  IF At(s, k, "==") THEN "=="
  ELSE IF At(s, k, "=") THEN "="
  ELSE IF At(s, k, ">=") THEN ">="
  ELSE IF At(s, k, "<=") THEN "<="
  ELSE IF At(s, k, ">") THEN ">"
  ELSE IF At(s, k, "<") THEN "<"
  ELSE ""

\* /^([A-Za-z_][\w-]*)\s*(==|=|>=|<=|>|<)?\s*(.+)?$/ : the identifier ends
\* before e, the operator stands at k, the value, if any, starts at r
parseCondition(text) ==
  LET e == IdentEnd(text, 1)
      k == SkipWhile(text, e, Space)
      op == OperatorAt(text, k)
      r == SkipWhile(text, k + Len(op), Space)
  IN IF e = 1 THEN Fail("Invalid condition")
     ELSE [err |-> "",
           cond |-> Cond(SubSeq(text, 1, e - 1),
                         IF op = "" THEN Undef ELSE Str(op),
                         IF r <= Len(text) THEN parseScalar(Trim(From(text, r))) ELSE Undef)]

\* the (.+) that ends a pattern after \s*, from index r on: the blanks go
\* to \s* unless nothing else is left
Rest(s, r) ==
  IF SkipWhile(s, r, Space) <= Len(s) THEN From(s, SkipWhile(s, r, Space))
  ELSE From(s, Len(s))

\* /^emit\s+([A-Za-z_][\w-]*)\s*$/ : the name, "" without a match
EmitMatch(s) ==
  LET j == SkipWhile(s, 5, Space)
      e == IdentEnd(s, j)
  IN IF At(s, 1, "emit") /\ Ch(s, 5) \in Space /\ e > j /\ SkipWhile(s, e, Space) > Len(s)
       THEN SubSeq(s, j, e - 1)
       ELSE ""
\* /^log\s+("[^"]*"|'[^']*')\s*$/ : the quoted text, "" without a match
LogMatch(s) ==
  LET j == SkipWhile(s, 4, Space)
      c == IndexOf(s, j + 1, Ch(s, j))
  IN IF /\ At(s, 1, "log") /\ Ch(s, 4) \in Space /\ Ch(s, j) \in Quote
        /\ c # 0 /\ SkipWhile(s, c + 1, Space) > Len(s)
       THEN SubSeq(s, j, c)
       ELSE ""
\* /^set\s+([A-Za-z_][\w-]*)\s*=\s*(.+)\s*$/ : name "" without a match
SetMatch(s) ==
  LET j == SkipWhile(s, 4, Space)
      e == IdentEnd(s, j)
      k == SkipWhile(s, e, Space)
  IN IF At(s, 1, "set") /\ Ch(s, 4) \in Space /\ e > j /\ Ch(s, k) = "=" /\ k < Len(s)
       THEN [name |-> SubSeq(s, j, e - 1), value |-> Rest(s, k + 1)]
       ELSE [name |-> ""]

parseAction(text) ==
  IF EmitMatch(text) # "" THEN [err |-> "", action |-> Emit(EmitMatch(text))]
  ELSE IF LogMatch(text) # "" THEN [err |-> "", action |-> Log(stripQuotes(LogMatch(text)))]
  ELSE IF SetMatch(text).name # ""
    THEN [err |-> "",
          action |-> Set(SetMatch(text).name, parseScalar(SetMatch(text).value))]
  ELSE Fail("Unknown action")

\* \s+then\s+(.+) standing at index k of a trimmed line
ThenAt(t, k) ==
  /\ Ch(t, k) \in Space
  /\ At(t, SkipWhile(t, k, Space), "then")
  /\ Ch(t, SkipWhile(t, k, Space) + 4) \in Space
  /\ SkipWhile(t, k, Space) + 5 <= Len(t)
\* the first index from k on where it stands, 0 if nowhere
RECURSIVE FirstThen(_, _)
FirstThen(t, k) ==
  IF k > Len(t) THEN 0 ELSE IF ThenAt(t, k) THEN k ELSE FirstThen(t, k + 1)

\* /^!\s*if\s+(.+?)\s+then\s+(.+)\s*$/ : `if` ends before p, the blanks after
\* it before e; the lazy group is the shortest text from e on that \s+then\s+
\* follows, or, if there is none and `then` itself stands at e, one of the
\* blanks before it.  cond "" without a match
IfThenMatch(t) ==
  LET p == SkipWhile(t, 2, Space) + 2
      e == SkipWhile(t, p, Space)
      k == FirstThen(t, e + 1)
      c == IF k # 0 THEN e ELSE e - 2
      th == IF k # 0 THEN k ELSE e - 1
  IN IF At(t, p - 2, "if") /\ e > p /\ (k # 0 \/ (e - p >= 3 /\ ThenAt(t, e - 1)))
       THEN [cond |-> SubSeq(t, c, th - 1), action |-> Rest(t, SkipWhile(t, th, Space) + 4)]
       ELSE [cond |-> ""]

\* the ! line, lines 191-199
ActionItem(cond, act) ==
  IF cond.err # "" THEN cond
  ELSE IF act.err # "" THEN act
  ELSE [err |-> "", item |-> Action(cond.cond, act.action)]
parseActionLine(t) ==
  IF IfThenMatch(t).cond = "" THEN Fail("Invalid action statement")
  ELSE ActionItem(parseCondition(Trim(IfThenMatch(t).cond)),
                  parseAction(Trim(IfThenMatch(t).action)))

\* the ? line, lines 184-189
parseCondLine(t) ==
  LET cond == parseCondition(Trim(From(t, 2)))
  IN IF cond.err # "" THEN cond ELSE [err |-> "", item |-> [kind |-> "cond", value |-> cond.cond]]

\* the let line, lines 201-210: /^let\s+([A-Za-z_][\w-]*)\s*=\s*(.+)\s*$/
LetItem(name, expr) ==
  IF expr.err # "" THEN [err |-> expr.err] ELSE [err |-> "", item |-> Let(name, expr.expr)]
parseLetLine(t) ==
  LET j == SkipWhile(t, 4, Space)
      e == IdentEnd(t, j)
      k == SkipWhile(t, e, Space)
  IN IF e > j /\ Ch(t, k) = "=" /\ k < Len(t)
       THEN LetItem(SubSeq(t, j, e - 1), parseExpression(Rest(t, k + 1)))
       ELSE Fail("Invalid let statement")

\* splitTopLevel, lines 635-652: i is the index of the next character
Opening == {"{", "[", "("}
Closing == {"}", "]", ")"}
RECURSIVE SplitLoop(_, _, _, _, _, _)
SplitLoop(s, delim, i, depth, cur, out) ==
  LET ch == Ch(s, i)
      d == depth + (IF ch \in Opening THEN 1 ELSE 0) - (IF ch \in Closing THEN 1 ELSE 0)
  IN IF i > Len(s) THEN (IF Trim(cur) # "" THEN Append(out, Trim(cur)) ELSE out)
     ELSE IF ch = delim /\ d = 0 THEN SplitLoop(s, delim, i + 1, d, "", Append(out, Trim(cur)))
     ELSE SplitLoop(s, delim, i + 1, d, cur \o ch, out)
splitTopLevel(s, delim) == SplitLoop(s, delim, 1, 0, "", <<>>)

\* the arguments of a %model: line, lines 146-150; splitOnce cuts kv at eq,
\* the first =
RECURSIVE ModelArgs(_, _, _)
ModelArgs(kvs, i, args) ==
  LET kv == kvs[i]
      eq == IndexOf(kv, 1, "=")
  IN IF i > Len(kvs) THEN [err |-> "", args |-> args]
     ELSE IF eq = 0 \/ eq = 1 THEN Fail("Invalid model arg")
     ELSE ModelArgs(kvs, i + 1,
                    (Trim(SubSeq(kv, 1, eq - 1)) :> parseScalar(Trim(From(kv, eq + 1)))) @@ args)

\* the %model: line, lines 136-155:
\* /^%model:([A-Za-z_][\w-]*)\s*(\{.*\})?\s*$/ on the trimmed line; the type
\* ends before e, k is the index after the blanks that follow it
parseModelLine(t) ==
  LET e == IdentEnd(t, 8)
      k == SkipWhile(t, e, Space)
      r == IF k > Len(t) THEN [err |-> "", args |-> Empty]
           ELSE ModelArgs(splitTopLevel(Trim(SubSeq(t, k + 1, Len(t) - 1)), ","), 1, Empty)
  IN IF e = 8 \/ (k <= Len(t) /\ ~(Ch(t, k) = "{" /\ Ch(t, Len(t)) = "}"))
       THEN Fail("Invalid model block")
     ELSE IF r.err # "" THEN r
     ELSE [err |-> "", item |-> Model(SubSeq(t, 8, e - 1), r.args)]

\* the %out: line, lines 157-163: /^%out:\s*([A-Za-z_][\w-]*)\s*$/
parseOutLine(t) ==
  LET j == SkipWhile(t, 6, Space)
      e == IdentEnd(t, j)
  IN IF e > j /\ SkipWhile(t, e, Space) > Len(t)
       THEN [err |-> "", item |-> Out(SubSeq(t, j, e - 1))]
       ELSE Fail("Invalid out block")

\* the + line, lines 165-174:
\* /^\+([A-Za-z_][\w-]*):([A-Za-z_][\w-]*)(\[(.+?)\])?\s*$/ on the trimmed line
Node(name, type, range) ==
  [kind |-> "node", value |-> [name |-> name, type |-> type, range |-> range]]
parseNodeLine(t) ==
  LET e1 == IdentEnd(t, 2)
      e2 == IdentEnd(t, e1 + 1)
  IN IF e1 = 2 \/ Ch(t, e1) # ":" \/ e2 = e1 + 1 THEN Fail("Invalid node declaration")
     ELSE IF e2 > Len(t)
       THEN [err |-> "", item |-> Node(SubSeq(t, 2, e1 - 1), SubSeq(t, e1 + 1, e2 - 1), Undef)]
     ELSE IF Ch(t, e2) = "[" /\ Ch(t, Len(t)) = "]" /\ Len(t) >= e2 + 2
       THEN [err |-> "", item |-> Node(SubSeq(t, 2, e1 - 1), SubSeq(t, e1 + 1, e2 - 1),
                                       Str(SubSeq(t, e2 + 1, Len(t) - 1)))]
     ELSE Fail("Invalid node declaration")

\* the -> line, lines 176-182:
\* /^->\s*([A-Za-z_][\w-]*)\s*=>\s*([A-Za-z_][\w-]*)\s*$/
Edge(from, to) == [kind |-> "edge", value |-> [from |-> from, to |-> to]]
parseEdgeLine(t) ==
  LET j1 == SkipWhile(t, 3, Space)
      e1 == IdentEnd(t, j1)
      k == SkipWhile(t, e1, Space)
      j2 == SkipWhile(t, k + 2, Space)
      e2 == IdentEnd(t, j2)
  IN IF e1 > j1 /\ At(t, k, "=>") /\ e2 > j2 /\ SkipWhile(t, e2, Space) > Len(t)
       THEN [err |-> "", item |-> Edge(SubSeq(t, j1, e1 - 1), SubSeq(t, j2, e2 - 1))]
       ELSE Fail("Invalid edge declaration")

\* a statement line other than %in:, by its prefix, lines 136-212
parseLine(t) ==
  IF StartsWith(t, "%model:") THEN parseModelLine(t)
  ELSE IF StartsWith(t, "%out:") THEN parseOutLine(t)
  ELSE IF StartsWith(t, "+") THEN parseNodeLine(t)
  ELSE IF StartsWith(t, "->") THEN parseEdgeLine(t)
  ELSE IF StartsWith(t, "?") THEN parseCondLine(t)
  ELSE IF StartsWith(t, "!") THEN parseActionLine(t)
  ELSE IF StartsWith(t, "let ") THEN parseLetLine(t)
  ELSE Fail("Unknown statement")

(***************************************************************************)
(* JSON.parse on the characters of a payload, as far as the payloads go:   *)
(* arrays, objects, strings without escapes, true, false, null, and        *)
(* numbers without an exponent.  The result is a deep value, err = "" and  *)
(* the index i after it, or err = "SyntaxError".                           *)
(***************************************************************************)
JsonFail == [err |-> "SyntaxError"]
JsonOk(v, i) == [err |-> "", v |-> v, i |-> i]

\* a string whose opening quote is at j
JsonString(s, j) ==
  LET c == IndexOf(s, j + 1, "\"")
      body == SubSeq(s, j + 1, c - 1)
  IN IF c = 0 \/ \E x \in {"\n", "\r", "\t", "\\"} : IndexOf(body, 1, x) # 0 THEN JsonFail
     ELSE JsonOk(Str(body), c + 1)

\* -? ( 0 | [1-9] digits ) ( . digits+ )? : the digits start at n and end
\* before e, the number ends before end
JsonNumber(s, j) ==
  LET n == IF Ch(s, j) = "-" THEN j + 1 ELSE j
      e == SkipWhile(s, n, Digit)
      end == IF Ch(s, e) = "." THEN SkipWhile(s, e + 1, Digit) ELSE e
  IN IF \/ e = n
        \/ Ch(s, n) = "0" /\ e > n + 1
        \/ Ch(s, e) = "." /\ end = e + 1
        \/ Ch(s, end) \in {"e", "E"}
       THEN JsonFail
       ELSE JsonOk(NumberOf(SubSeq(s, j, end - 1)), end)

RECURSIVE JsonValue(_, _), JsonElems(_, _, _), JsonFields(_, _, _)
\* the elements of an array after acc, the next one being expected from i on
JsonElems(s, acc, i) ==
  LET r == JsonValue(s, i)
      k == SkipWhile(s, r.i, Space)
  IN IF r.err # "" THEN r
     ELSE IF Ch(s, k) = "," THEN JsonElems(s, Append(acc, r.v), k + 1)
     ELSE IF Ch(s, k) = "]" THEN JsonOk(JArr(Append(acc, r.v)), k + 1)
     ELSE JsonFail
\* the fields of an object after acc, the next name being expected at k
JsonFields(s, acc, k) ==
  LET key == JsonString(s, k)
      c == SkipWhile(s, key.i, Space)
      r == JsonValue(s, c + 1)
      n == SkipWhile(s, r.i, Space)
  IN IF Ch(s, k) # "\"" THEN JsonFail
     ELSE IF key.err # "" THEN key
     ELSE IF Ch(s, c) # ":" THEN JsonFail
     ELSE IF r.err # "" THEN r
     ELSE IF Ch(s, n) = ","
       THEN JsonFields(s, (key.v.v :> r.v) @@ acc, SkipWhile(s, n + 1, Space))
     ELSE IF Ch(s, n) = "}" THEN JsonOk(JObj((key.v.v :> r.v) @@ acc), n + 1)
     ELSE JsonFail
JsonValue(s, i) ==
  LET j == SkipWhile(s, i, Space)
      k == SkipWhile(s, j + 1, Space)
  IN IF Ch(s, j) = "["
       THEN IF Ch(s, k) = "]" THEN JsonOk(JArr(<<>>), k + 1) ELSE JsonElems(s, <<>>, k)
     ELSE IF Ch(s, j) = "{"
       THEN IF Ch(s, k) = "}" THEN JsonOk(JObj(Empty), k + 1) ELSE JsonFields(s, Empty, k)
     ELSE IF Ch(s, j) = "\"" THEN JsonString(s, j)
     ELSE IF At(s, j, "true") THEN JsonOk(Bool(TRUE), j + 4)
     ELSE IF At(s, j, "false") THEN JsonOk(Bool(FALSE), j + 5)
     ELSE IF At(s, j, "null") THEN JsonOk(Null, j + 4)
     ELSE IF Ch(s, j) \in Digit \cup {"-"} THEN JsonNumber(s, j)
     ELSE JsonFail

JSONParse(text) ==
  LET r == JsonValue(text, 1)
  IN IF r.err = "" /\ SkipWhile(text, r.i, Space) <= Len(text) THEN JsonFail ELSE r

(***************************************************************************)
(* parseSource, lines 85-281.                                              *)
(***************************************************************************)
\* source.replace(/\r\n/g, '\n').split('\n'), line 86: i is the start of
\* the next line, n the index of the line break that ends it
RECURSIVE SplitFrom(_, _, _)
SplitFrom(s, i, acc) ==
  LET n == IndexOf(s, i, "\n")
      end == IF n > i /\ Ch(s, n - 1) = "\r" THEN n - 2 ELSE n - 1
  IN IF n = 0 THEN Append(acc, From(s, i))
     ELSE SplitFrom(s, n + 1, Append(acc, SubSeq(s, i, end)))
SplitLines(s) == SplitFrom(s, 1, <<>>)

\* /^\s*(#.*)?$/, line 99
IsEmptyLine(l) ==
  SkipWhile(l, 1, Space) > Len(l) \/ Ch(l, SkipWhile(l, 1, Space)) = "#"
\* skipEmpty, lines 95-105: the index it leaves
RECURSIVE skipEmpty(_, _)
skipEmpty(lines, idx) ==
  IF idx <= Len(lines) /\ IsEmptyLine(lines[idx]) THEN skipEmpty(lines, idx + 1) ELSE idx

\* /^\s*(%model:|%out:|@|\+|->|\?|!|let\b)/ on a trimmed line, line 269
IsDirective(p) ==
  \/ StartsWith(p, "%model:") \/ StartsWith(p, "%out:") \/ StartsWith(p, "@")
  \/ StartsWith(p, "+") \/ StartsWith(p, "->") \/ StartsWith(p, "?")
  \/ StartsWith(p, "!")
  \/ StartsWith(p, "let") /\ Ch(p, 4) \notin Word
\* readBlockPayload, the loop of lines 266-271: the index of the line that
\* ends the block
RECURSIVE PayloadEnd(_, _)
PayloadEnd(lines, idx) ==
  IF idx > Len(lines) \/ IsDirective(Trim(lines[idx])) THEN idx
  ELSE PayloadEnd(lines, idx + 1)
\* buf.join('\n') for the lines i..j
RECURSIVE JoinLines(_, _, _)
JoinLines(lines, i, j) ==
  IF i > j THEN ""
  ELSE IF i = j THEN lines[i]
  ELSE lines[i] \o "\n" \o JoinLines(lines, i + 1, j)
\* the payload as a deep value and the index of the line after the block
readBlockPayload(lines, idx) ==
  LET e == PayloadEnd(lines, idx)
      raw == Trim(JoinLines(lines, idx, e - 1))
      r == JSONParse(raw)
  IN IF raw = "" THEN Fail("Empty %in block")
     ELSE IF r.err # "" THEN Fail("Invalid %in JSON payload")
     ELSE [err |-> "", value |-> r.v, idx |-> e]

\* the statement loop, lines 122-213: idx is the next line, h the heap the
\* payloads are built in
RECURSIVE StatementLoop(_, _, _, _)
InputBlock(lines, p, h, items) ==
  LET a == Parse(h, p.value)
  IN IF p.err # "" THEN p
     ELSE StatementLoop(lines, p.idx, a.h, Append(items, [kind |-> "input", value |-> a.v]))
PlainLine(lines, i, r, h, items) ==
  IF r.err # "" THEN r ELSE StatementLoop(lines, i + 1, h, Append(items, r.item))
StatementLoop(lines, idx, h, items) ==
  LET i == skipEmpty(lines, idx)
      t == Trim(lines[i])
  IN IF i > Len(lines) THEN [err |-> "", items |-> items, h |-> h]
     ELSE IF StartsWith(t, "%in:")
       THEN InputBlock(lines, readBlockPayload(lines, i + 1), h, items)
     ELSE PlainLine(lines, i, parseLine(t), h, items)

\* the fold into the Program, lines 215-259
NewProgram(taskId) ==
  [taskId |-> taskId, input |-> Undef, model |-> Undef, out |-> Undef, nodes |-> <<>>,
   edges |-> <<>>, conditions |-> <<>>, actions |-> <<>>, sourceOrder |-> <<>>]
\* a fold in which a later declaration replaces an earlier one
FoldItemLastWins(p, it) ==
  IF it.kind = "input" THEN [err |-> "", ast |-> [p EXCEPT !.input = it.value]]
  ELSE IF it.kind = "model" THEN [err |-> "", ast |-> [p EXCEPT !.model = it.value]]
  ELSE IF it.kind = "out" THEN [err |-> "", ast |-> [p EXCEPT !.out = Str(it.value)]]
  ELSE IF it.kind = "node" THEN [err |-> "", ast |-> [p EXCEPT !.nodes = Append(@, it.value)]]
  ELSE IF it.kind = "edge" THEN [err |-> "", ast |-> [p EXCEPT !.edges = Append(@, it.value)]]
  ELSE IF it.kind = "cond"
    THEN [err |-> "", ast |-> [p EXCEPT !.conditions = Append(@, it.value)]]
  ELSE IF it.kind = "action"
    THEN [err |-> "", ast |-> [p EXCEPT !.actions = Append(@, it.value)]]
  ELSE [err |-> "", ast |-> p]

FoldItem(p, it) ==
  IF it.kind = "input"
    THEN IF p.input # Undef THEN Fail("Duplicate %in block")
         ELSE [err |-> "", ast |-> [p EXCEPT !.input = it.value]]
  ELSE IF it.kind = "model"
    THEN IF p.model # Undef THEN Fail("Duplicate %model block")
         ELSE [err |-> "", ast |-> [p EXCEPT !.model = it.value]]
  ELSE IF it.kind = "out"
    THEN IF p.out # Undef THEN Fail("Duplicate %out block")
         ELSE [err |-> "", ast |-> [p EXCEPT !.out = Str(it.value)]]
  ELSE IF it.kind = "node" THEN [err |-> "", ast |-> [p EXCEPT !.nodes = Append(@, it.value)]]
  ELSE IF it.kind = "edge" THEN [err |-> "", ast |-> [p EXCEPT !.edges = Append(@, it.value)]]
  ELSE IF it.kind = "cond"
    THEN [err |-> "", ast |-> [p EXCEPT !.conditions = Append(@, it.value)]]
  ELSE IF it.kind = "action"
    THEN [err |-> "", ast |-> [p EXCEPT !.actions = Append(@, it.value)]]
  ELSE [err |-> "", ast |-> p]
\* a fold that puts each statement in front of the ones before it
RECURSIVE FoldNewestFirst(_, _, _)
FoldNewestFirst(items, i, p) ==
  LET r == FoldItem([p EXCEPT !.sourceOrder = <<items[i]>> \o @], items[i])
  IN IF i > Len(items) THEN [err |-> "", ast |-> p]
     ELSE IF r.err # "" THEN r
     ELSE FoldNewestFirst(items, i + 1, r.ast)
RECURSIVE Fold(_, _, _)
Fold(items, i, p) ==
  LET r == FoldItem([p EXCEPT !.sourceOrder = Append(@, items[i])], items[i])
  IN IF i > Len(items) THEN [err |-> "", ast |-> p]
     ELSE IF r.err # "" THEN r
     ELSE Fold(items, i + 1, r.ast)

\* the task declaration, lines 111-120: /^@([A-Za-z_][\w-]*):\s*$/ on the trimmed line
HeaderLine(t) ==
  LET e == IdentEnd(t, 2)
  IN IF ~StartsWith(t, "@") THEN Fail("Expected task declaration like \"@task_id:\"")
     ELSE IF e > 2 /\ Ch(t, e) = ":" /\ e = Len(t) THEN [err |-> "", taskId |-> SubSeq(t, 2, e - 1)]
     ELSE Fail("Invalid task declaration")

\* parseSource: the message it throws, or err = "" with the Program it
\* returns and the heap its input lives in
SourceItems(taskId, r) ==
  LET f == Fold(r.items, 1, NewProgram(taskId))
  IN IF r.err # "" THEN [err |-> r.err]
     ELSE IF f.err # "" THEN f
     ELSE [err |-> "", ast |-> f.ast, h |-> r.h]
parseSource(src) ==
  LET lines == SplitLines(src)
      i == skipEmpty(lines, 1)
      hd == HeaderLine(Trim(lines[i]))
  IN IF i > Len(lines) THEN Fail("Expected task declaration like \"@task_id:\"")
     ELSE IF hd.err # "" THEN hd
     ELSE SourceItems(hd.taskId, StatementLoop(lines, i + 1, <<>>, <<>>))

(***************************************************************************)
(* Source texts.  The let family: the let-binding test's source with every *)
(* right-hand side "a op1 b op2 c", written with blanks around the         *)
(* operators or without.  An identifier runs over a following "-" (its     *)
(* characters are [\w-]), so a text without blanks is drawn only where no  *)
(* identifier stands directly before a "-".                                *)
(***************************************************************************)
LetOperands == {"x", "2", "obj.y", "obj.in.y"}
Operators == {"*", "/", "+", "-"}
Multiplicative == {"*", "/"}
Additive == {"+", "-"}

LetShapes ==
  { q \in [a : LetOperands, op1 : Operators, b : LetOperands, op2 : Operators,
           c : LetOperands, sep : {" ", ""}] :
      q.sep = "" => ~(q.a # "2" /\ q.op1 = "-") /\ ~(q.b # "2" /\ q.op2 = "-") }
LetText(q) ==
  q.a \o q.sep \o q.op1 \o q.sep \o q.b \o q.sep \o q.op2 \o q.sep \o q.c
LetCases == { [shape |-> q, text |-> LetText(q)] : q \in LetShapes }

LetPrefix ==
  "@calc:\n%in:\n{ \"x\": 3, \"obj\": { \"y\": 4, \"in\": { \"y\": 5 } } }\nlet z = "
LetSuffix == "\n!if z >= 10 then emit z"
LetSources == { LetPrefix \o c.text \o LetSuffix : c \in LetCases }

\* the source of the let-binding test
ExampleSource ==
  "@calc:\n%in:\n{ \"x\": 3, \"obj\": { \"y\": 4 } }\nlet z = x * 2 + obj.y\n!if z >= 10 then emit z"

\* Statement lines the grammar of the language admits, and lines it does not
WellFormedLines ==
  { "%in:\n[3, 1, 2]", "%model:sort", "%model:sort{algorithm=bubble}", "%out: sorted",
    "+n1:task", "+n1:task[1..3]", "->a=>b", "?x", "?x >= 5", "!if x then emit y",
    "!if x >= 5 then log \"hi\"", "!if input then set y = 1", "let z = x + 1", "", "# note" }
MalformedLines ==
  { "+badnode", "garbage", "%model:", "%model:sort{algorithm}", "%out:", "%out: a b",
    "->a", "?", "?x 5", "?x >=", "!if x", "!if x then", "!if x then jump y",
    "!if x >= then emit y", "let z =", "let z = x +", "let z = (x)", "let z = +.",
    "let = 3" }

\* what stands before and after the line in a source
LinesBefore == {"", "+n0:task\n", "\n# note\n%model:sort\n"}
LinesAfter == {"", "\n%out: x", "\nlet y = 1\n"}
LineSources ==
  { "@t:\n" \o b \o l \o a :
      b \in LinesBefore, l \in WellFormedLines \cup MalformedLines, a \in LinesAfter }

\* the agent usage example of README.md, lines 73-81, and other actions under
\* the condition `true` (toolchain/README.md, lines 27-30)
AgentSource ==
  "@writefile:\n%in:\n{ \"file\": \"examples/out.txt\", \"content\": \"hello\" }\n"
    \o "%model:tool{name=fs.write, file=file, content=content}\n!if true then emit plan"
LiteralTrueSources ==
  { AgentSource,
    "@t:\n%in:\n[3, 1, 2]\n!if true then emit got",
    "@t:\n!if true then log \"done\"",
    "@t:\n%model:tool{name=fs.write}\n!if true then set acknowledged=true" }

\* sources that declare %in, %model or %out once, twice, or not at all
DeclarationSources ==
  { "@t:\n%in:\n[1]\n%model:sort\n%out: a",
    "@t:\n%in:\n[1]\n%in:\n[2]",
    "@t:\n%in:\n[1]\n%out: x\n%in:\n[2]",
    "@t:\n%in:\nnull\n%model:sort\n%in:\n[2]",
    "@t:\n%in:\n[1]\n+n:task\n%in:\n[1]",
    "@t:\n%model:sort\n%model:sort",
    "@t:\n%model:sort\n%out: a\n%model:tool{name=x}",
    "@t:\n%out: a\n%out: a",
    "@t:\n%out: a\n%model:sort\n%out: b",
    "@t:\n%out: a\nlet x = 1\n!if x then emit a\n!if x then emit a\nlet x = 2" }

\* sources with blank lines and comment lines between their statements
CommentedSources ==
  { "@t:\n%in:\n[3, 1, 2]\n\n%out: x",
    "@t:\n%in:\n[3, 1, 2]\n# note\n%out: x",
    "@t:\n%in:\n[3, 1, 2]\n\n  # note\n\n%model:sort",
    "@t:\n%in:\n[3, 1, 2]\n# note",
    "@t:\n%in:\n\n[3, 1, 2]\n   \n",
    "@t:\n\n# a\n%model:sort\n  \n#b\n%out: x\n",
    "@t:\n%model:sort\n   # indented note\n%out: x",
    "\n# top\n@t:\n%out: x" }

SourceTexts ==
  LetSources \cup {ExampleSource} \cup LineSources \cup LiteralTrueSources
    \cup DeclarationSources \cup CommentedSources


(***************************************************************************)
(* The state machine: a parsed Program is executed MaxRuns times by the    *)
(* tree-walker, then compiled, then run by the virtual machine.            *)
(***************************************************************************)
VARIABLES source, ast, heap, phase, runs, pc, ctx, outputs, console, error,
          results, bin, vbin, vinput, consts, ip, stack, vctx, voutputs, verror, vresult

vars == <<source, ast, heap, phase, runs, pc, ctx, outputs, console, error,
          results, bin, vbin, vinput, consts, ip, stack, vctx, voutputs, verror, vresult>>

execVars == <<pc, ctx, outputs, console, error>>
vmVars == <<vbin, vinput, consts, ip, stack, vctx, voutputs, verror>>

NoBin == [magic |-> <<>>]
NoResult == [error |-> "not run"]

DeepMap(h, m) == [k \in DOMAIN m |-> Deref(h, m[k])]

\* what a call gives its caller: the message thrown, or { outputs, context }
Result(h, err, outs, c) ==
  IF err # "" THEN [error |-> err]
  ELSE [error |-> "", outputs |-> DeepMap(h, outs), context |-> DeepMap(h, c)]

\* the Program parseSource returns for a source: the %in item comes first
InitFrom(sources) ==
  /\ source \in sources
  /\ LET p == Parse(<<>>, source.input)
     IN /\ heap = p.h
        /\ ast = [input |-> p.v,
                  sourceOrder |-> (IF source.input = Undef THEN <<>>
                                   ELSE <<[kind |-> "input", value |-> p.v]>>) \o source.stmts]
  /\ phase = "idle"
  /\ runs = 0
  /\ pc = 0
  /\ ctx = Empty
  /\ outputs = Empty
  /\ console = <<>>
  /\ error = ""
  /\ results = <<>>
  /\ bin = NoBin
  /\ vbin = NoBin
  /\ vinput = Undef
  /\ consts = <<>>
  /\ ip = 0
  /\ stack = <<>>
  /\ vctx = Empty
  /\ voutputs = Empty
  /\ verror = ""
  /\ vresult = NoResult

Init == InitFrom(Sources)

\* execute, lines 283-291
ExecuteBegin ==
  /\ phase = "idle"
  /\ runs < MaxRuns
  /\ phase' = "execute"
  /\ runs' = runs + 1
  /\ pc' = 1
  /\ ctx' = seedContext(heap, ast.input)
  /\ outputs' = Empty
  /\ console' = <<>>
  /\ error' = ""
  /\ UNCHANGED <<source, ast, heap, results, bin, vmVars, vresult>>

\* a loop that walks the statements from the last to the first
StatementAtReversed(order, i) == order[Len(order) + 1 - i]

\* for (const step of ast.sourceOrder), line 293: the step of the i-th iteration
StatementAt(order, i) == order[i]

\* execute, one iteration of lines 293-327
ExecuteStep ==
  /\ phase = "execute"
  /\ error = ""
  /\ pc <= Len(ast.sourceOrder)
  /\ \E st \in {executeStep(StatementAt(ast.sourceOrder, pc),
                            [h |-> heap, ctx |-> ctx, outputs |-> outputs,
                             console |-> console, error |-> error])} :
        /\ heap' = st.h
        /\ ctx' = st.ctx
        /\ outputs' = st.outputs
        /\ console' = st.console
        /\ error' = st.error
        /\ pc' = IF st.error = "" THEN pc + 1 ELSE pc
  /\ UNCHANGED <<source, ast, phase, runs, results, bin, vmVars, vresult>>

\* execute, line 329, or the throw reaching the caller
ExecuteReturn ==
  /\ phase = "execute"
  /\ error # "" \/ pc > Len(ast.sourceOrder)
  /\ results' = Append(results, Result(heap, error, outputs, ctx))
  /\ phase' = "idle"
  /\ UNCHANGED <<source, ast, heap, runs, execVars, bin, vmVars, vresult>>

\* compileToBytecode on the Program, once it has been executed n times
Compile(n) ==
  /\ phase = "idle"
  /\ runs = n
  /\ bin = NoBin
  /\ bin' = compileToBytecode(ast)
  /\ UNCHANGED <<source, ast, heap, phase, runs, execVars, results, vmVars, vresult>>

CompileToBytecode == Compile(MaxRuns)

\* the opcodes the dispatch loop has a case for, lines 269-286
KnownOps ==
  {OpCONST, OpGET_CTX, OpSET_CTX, OpMEMBER, OpADD, OpSUB, OpMUL, OpDIV, OpCMP_EQ, OpCMP_GE,
   OpCMP_LE, OpCMP_GT, OpCMP_LT, OpJUMP_IF_FALSE, OpSORT, OpEMIT_PREFERRED, OpEMIT_TOP}
\* a byte it has no case for: an opcode of a later version
UnknownOps == {153}

\* the bytes an instruction takes: the opcode and its operands
InstrLen(op) ==
  IF op = OpSORT THEN 9
  ELSE IF op \in {OpADD, OpSUB, OpMUL, OpDIV, OpCMP_EQ, OpCMP_GE, OpCMP_LE, OpCMP_GT, OpCMP_LT}
    THEN 1
  ELSE 5
\* the offsets at which the instructions of a compiled code start
RECURSIVE InstrStarts(_, _)
InstrStarts(code, at) ==
  IF at >= Len(code) THEN {} ELSE {at} \cup InstrStarts(code, at + InstrLen(code[at + 1]))

\* the buffers a caller may hand to runBytecode: the compiled module, or that
\* module with one damaged field
Buffers(b) ==
  {b, [b EXCEPT !.magic = <<65, 76, 66, 66>>], [b EXCEPT !.version = 2]}
    \cup { [b EXCEPT !.consts[i].type = 4] : i \in 1..Len(b.consts) }
    \cup { [b EXCEPT !.code[at + 1] = op] : at \in InstrStarts(b.code, 0), op \in UnknownOps }

\* runBytecode, lines 216-257, with the Program's input or without an input
RunBytecodeBegin ==
  /\ phase = "idle"
  /\ bin # NoBin
  /\ \E b \in Buffers(bin), input \in {ast.input, Undef} :
       /\ vbin' = b
       /\ vinput' = input
       /\ vctx' = IF decodeError(b) = "" THEN vmSeedContext(heap, input) ELSE Empty
       /\ verror' = decodeError(b)
       /\ consts' = IF decodeError(b) = "" THEN decodeConsts(b) ELSE <<>>
  /\ ip' = 0
  /\ stack' = <<>>
  /\ voutputs' = Empty
  /\ phase' = "run"
  /\ UNCHANGED <<source, ast, heap, runs, execVars, results, bin, vresult>>

\* runBytecode, one iteration of lines 267-289
VMStep ==
  /\ phase = "run"
  /\ verror = ""
  /\ ip < vbin.codeLen
  /\ \E st \in {vmStep(consts, vbin.code,
                       [h |-> heap, ctx |-> vctx, outputs |-> voutputs,
                        stack |-> stack, ip |-> ip, error |-> verror])} :
        /\ heap' = st.h
        /\ vctx' = st.ctx
        /\ voutputs' = st.outputs
        /\ stack' = st.stack
        /\ ip' = st.ip
        /\ verror' = st.error
  /\ UNCHANGED <<source, ast, phase, runs, execVars, results, bin, vbin, vinput, consts, vresult>>

\* runBytecode, line 291, or the throw reaching the caller
RunBytecodeReturn ==
  /\ phase = "run"
  /\ verror # "" \/ ip >= vbin.codeLen
  /\ vresult' = Result(heap, verror, voutputs, vctx)
  /\ phase' = "done"
  /\ UNCHANGED <<source, ast, heap, runs, execVars, results, bin, vmVars>>

Next ==
  \/ ExecuteBegin
  \/ ExecuteStep
  \/ ExecuteReturn
  \/ CompileToBytecode
  \/ RunBytecodeBegin
  \/ VMStep
  \/ RunBytecodeReturn

Spec == Init /\ [][Next]_vars

\* runBytecode is synchronous: once called, the dispatch loop takes its next
\* iteration and the function returns, with no suspension point in between
RunToCompletion == WF_vars(VMStep) /\ WF_vars(RunBytecodeReturn)

\* the Program compiled as parsed and run, without the tree-walker
LiveNext ==
  \/ Compile(0)
  \/ RunBytecodeBegin
  \/ VMStep
  \/ RunBytecodeReturn

\* the sources of the runs followed to their end
LivePayloads == {Undef, N(7), JArr(<<N(2), N(1)>>), JObj(("x" :> N(3)))}
LiveSources == { [input |-> j, stmts |-> q] : j \in LivePayloads, q \in StmtLists }

LiveInit == InitFrom(LiveSources)
LiveSpec == LiveInit /\ [][LiveNext]_vars /\ RunToCompletion

(***************************************************************************)
(* The same machine started from a source text: parseSource runs first and *)
(* gives the Program, or throws and leaves nothing to execute.             *)
(***************************************************************************)
SourceInit ==
  /\ source \in SourceTexts
  /\ ast = [error |-> "not parsed"]
  /\ heap = <<>>
  /\ phase = "source"
  /\ runs = 0
  /\ pc = 0
  /\ ctx = Empty
  /\ outputs = Empty
  /\ console = <<>>
  /\ error = ""
  /\ results = <<>>
  /\ bin = NoBin
  /\ vbin = NoBin
  /\ vinput = Undef
  /\ consts = <<>>
  /\ ip = 0
  /\ stack = <<>>
  /\ vctx = Empty
  /\ voutputs = Empty
  /\ verror = ""
  /\ vresult = NoResult

\* parseSource, lines 85-281: the Program it returns or the message it throws
ParseSource ==
  /\ phase = "source"
  /\ \E r \in {parseSource(source)} :
       /\ ast' = IF r.err # "" THEN [error |-> r.err] ELSE r.ast
       /\ heap' = IF r.err # "" THEN heap ELSE r.h
       /\ phase' = IF r.err # "" THEN "rejected" ELSE "idle"
  /\ UNCHANGED <<source, runs, execVars, results, bin, vmVars, vresult>>

SourceNext ==
  \/ ParseSource
  \/ ExecuteBegin
  \/ ExecuteStep
  \/ ExecuteReturn
  \/ CompileToBytecode
  \/ RunBytecodeBegin
  \/ VMStep
  \/ RunBytecodeReturn

SourceSpec == SourceInit /\ [][SourceNext]_vars

(***************************************************************************)
(* Vocabulary of the properties.                                           *)
(***************************************************************************)
InExecute == phase = "execute" /\ error = ""
AboutToExecute == InExecute /\ pc <= Len(ast.sourceOrder)
\* the statement the tree-walker executed last, once it has executed one
JustExecuted == InExecute /\ pc > 1
Last == ast.sourceOrder[pc - 1]

AboutToStep == phase = "run" /\ verror = "" /\ ip < vbin.codeLen

IsSort(s) == s.kind = "model" /\ s.value.type = "sort"
AlgorithmOf(s) == Get(s.value.args, "algorithm")
IsBubble(s) == IsSort(s) /\ AlgorithmOf(s) \in {Undef, Str("bubble")}
HasTool == \E i \in 1..Len(ast.sourceOrder) :
             ast.sourceOrder[i].kind = "model" /\ ast.sourceOrder[i].value.type = "tool"

\* the model of the program, if any, is a sort with a known algorithm
DeterministicModel ==
  \A i \in 1..Len(ast.sourceOrder) :
    ast.sourceOrder[i].kind = "model"
      => /\ IsSort(ast.sourceOrder[i])
         /\ AlgorithmOf(ast.sourceOrder[i]) \in {Undef, Str("bubble"), Str("native")}

\* the offset in the code of the first instruction compiled from statement i
StmtOffset(i) ==
  Len(compileSteps(SubSeq(ast.sourceOrder, 1, i - 1), 1, [pool |-> EmptyPool, code |-> <<>>]).code)

\* the outputs a caller holds after a call, Thrown when the call threw
Thrown == [thrown |-> TRUE]
OutputsOf(r) == IF r.error # "" THEN Thrown ELSE r.outputs

NumLeq(x, y) == x.n * y.d <= y.n * x.d
IsNumberArray(j) == j.t = "array" /\ \A i \in 1..Len(j.v) : IsFin(j.v[i])
Ascending(q) == \A i \in 1..Len(q) : \A j \in i..Len(q) : NumLeq(q[i], q[j])
Occurrences(q, e) == Cardinality({i \in 1..Len(q) : q[i] = e})
Permutation(p, q) ==
  /\ Len(p) = Len(q)
  /\ \A i \in 1..Len(q) : Occurrences(p, q[i]) = Occurrences(q, q[i])

\* the array the sort model of the program runs on (a sort leaves it and the
\* context entries it is found by as they were)
PayloadList ==
  IF inferListFromContext(heap, ctx) = Undef THEN Undef
  ELSE Deref(heap, inferListFromContext(heap, ctx))

Example == JArr(<<N(9), N(1), N(5), N(6), N(2), N(5)>>)
ExampleSorted == JArr(<<N(1), N(2), N(5), N(5), N(6), N(9)>>)

(***************************************************************************)
(* C1.  For every program whose model, if any, is a sort with a known      *)
(* algorithm (so no tool), the outputs of execute and the outputs of       *)
(* running its compiled bytecode on the program's input are value-equal:   *)
(* the same names, an equal value under each.                              *)
(***************************************************************************)
BytecodeParity ==
  (vresult # NoResult /\ vbin = bin /\ vinput = ast.input /\ DeterministicModel)
    => OutputsOf(results[1]) = OutputsOf(vresult)

(***************************************************************************)
(* C2.  After the sort model ran with algorithm bubble, or without an      *)
(* algorithm, on an array of numbers, ctx.sorted is the input's elements   *)
(* in ascending order, and a following %out emits that array.              *)
(***************************************************************************)
BubbleSortSorts ==
  /\ (JustExecuted /\ IsBubble(Last) /\ IsNumberArray(PayloadList))
       => LET sorted == Deref(heap, Get(ctx, "sorted"))
          IN /\ sorted.t = "array"
             /\ Ascending(sorted.v)
             /\ Permutation(sorted.v, PayloadList.v)
             /\ (PayloadList = Example => sorted = ExampleSorted)
  /\ (JustExecuted /\ pc > 2 /\ Last.kind = "out" /\ IsBubble(ast.sourceOrder[pc - 2])
        /\ IsNumberArray(PayloadList))
       => LET emitted == Deref(heap, Get(outputs, Last.value))
          IN /\ emitted.t = "array"
             /\ Ascending(emitted.v)
             /\ Permutation(emitted.v, PayloadList.v)

BubbleSortSortsWitness ==
  /\ JustExecuted /\ pc > 2 /\ Last = Out("sorted")
  /\ IsBubble(ast.sourceOrder[pc - 2])
  /\ source.input = Example
  /\ Deref(heap, Get(outputs, "sorted")) = ExampleSorted

(***************************************************************************)
(* C3.  As claimed: a conditional action "!if c then emit n" executed      *)
(* after a sort stores the sorted array under n when c holds, and leaves   *)
(* Outputs and the context unchanged when c does not hold.                 *)
(***************************************************************************)
\* the conditions "name >= number" of the drawn actions, read on the context
GeHolds(cond, c) ==
  LET lv == Get(c, cond.left)
  IN IsFin(lv) /\ lv.n * cond.right.d >= cond.right.n * lv.d

SortRanBefore(i) == \E k \in 1..(i - 1) : IsSort(ast.sourceOrder[k])

EmitAfterSort ==
  /\ AboutToExecute
  /\ ast.sourceOrder[pc].kind = "action"
  /\ ast.sourceOrder[pc].value.action.kind = "emit"
  /\ ast.sourceOrder[pc].value.condition.op = Str(">=")
  /\ SortRanBefore(pc)

EmitStoresSortedStep ==
  EmitAfterSort =>
    LET a == ast.sourceOrder[pc].value
    IN /\ ctx' = ctx
       /\ IF GeHolds(a.condition, ctx)
            THEN DeepMap(heap', outputs')
                   = Put(DeepMap(heap, outputs), a.action.name, Deref(heap, Get(ctx, "sorted")))
            ELSE outputs' = outputs /\ heap' = heap

EmitStoresSorted == [][EmitStoresSortedStep]_vars

(***************************************************************************)
(* C3, amended.  Such an action stores under n a copy of the context's own *)
(* value for n when that is neither null nor undefined, and otherwise a    *)
(* copy of the sorted array; when c does not hold it leaves Outputs and    *)
(* the context unchanged.                                                  *)
(***************************************************************************)
EmitStoresNamedOrSortedStep ==
  EmitAfterSort =>
    LET a == ast.sourceOrder[pc].value
        named == Get(ctx, a.action.name)
        value == IF Nullish(named) THEN Get(ctx, "sorted") ELSE named
    IN /\ ctx' = ctx
       /\ IF GeHolds(a.condition, ctx)
            THEN /\ DeepMap(heap', outputs')
                      = Put(DeepMap(heap, outputs), a.action.name, Deref(heap, value))
                 /\ IsRef(outputs'[a.action.name]) => outputs'[a.action.name].a > Len(heap)
            ELSE outputs' = outputs /\ heap' = heap

EmitStoresNamedOrSorted == [][EmitStoresNamedOrSortedStep]_vars

EmitStoresNamedOrSortedWitness ==
  /\ JustExecuted
  /\ Last = Action(Cond("confidence", Str(">="), Num(4, 5)), Emit("high"))
  /\ SortRanBefore(pc - 1)
  /\ Get(ctx, "confidence") = Num(23, 25)
  /\ Deref(heap, Get(outputs, "high")) = JArr(<<N(1), N(5), N(9)>>)

(***************************************************************************)
(* C4.  The right-hand side of a let line is parsed with * and / binding   *)
(* tighter than + and -, each level left-associative, with chained         *)
(* .property access on identifiers: "a op1 b op2 c" is read as             *)
(* (a op1 b) op2 c unless op2 is multiplicative and op1 additive, and then *)
(* as a op1 (b op2 c).  Executing the line binds the declared name to the  *)
(* value of that grouping under the current context and changes nothing    *)
(* else; with x = 3 and obj.y = 4, "let z = x * 2 + obj.y" binds z = 10,   *)
(* and a following "!if z >= 10 then emit z" stores 10 under z.            *)
(***************************************************************************)
OperandExpr(o) ==
  CASE o = "x" -> Ident("x")
    [] o = "2" -> Number(N(2))
    [] o = "obj.y" -> Member(Ident("obj"), "y")
    [] o = "obj.in.y" -> Member(Member(Ident("obj"), "in"), "y")
\* under the context the payload of the family seeds
OperandValue(o) ==
  CASE o = "x" -> N(3) [] o = "2" -> N(2) [] o = "obj.y" -> N(4) [] o = "obj.in.y" -> N(5)

TighterRight(q) == q.op2 \in Multiplicative /\ q.op1 \in Additive
Grouped(q) ==
  IF TighterRight(q)
    THEN Binary(q.op1, OperandExpr(q.a), Binary(q.op2, OperandExpr(q.b), OperandExpr(q.c)))
    ELSE Binary(q.op2, Binary(q.op1, OperandExpr(q.a), OperandExpr(q.b)), OperandExpr(q.c))
GroupedValue(q) ==
  IF TighterRight(q)
    THEN Arith(q.op1, OperandValue(q.a), Arith(q.op2, OperandValue(q.b), OperandValue(q.c)))
    ELSE Arith(q.op2, Arith(q.op1, OperandValue(q.a), OperandValue(q.b)), OperandValue(q.c))

IsLetSource == StartsWith(source, LetPrefix)
\* the right-hand side as the source of the family spells it
LetTextOf(src) == SubSeq(src, Len(LetPrefix) + 1, Len(src) - Len(LetSuffix))
ExampleExpr == Binary("+", Binary("*", Ident("x"), Number(N(2))), Member(Ident("obj"), "y"))
ExampleAction == Action(Cond("z", Str(">="), N(10)), Emit("z"))

LetParsedAs(text) ==
  \E c \in LetCases :
    /\ c.text = text
    /\ phase' = "idle"
    /\ Len(ast'.sourceOrder) = 3
    /\ ast'.sourceOrder[2] = Let("z", Grouped(c.shape))
LetBoundAs(text) ==
  \E c \in LetCases :
    /\ c.text = text
    /\ ctx' = Put(ctx, "z", GroupedValue(c.shape))
    /\ error' = ""

LetBindsGroupedValueStep ==
  /\ (phase = "source" /\ IsLetSource) => LetParsedAs(LetTextOf(source))
  /\ (phase = "source" /\ source = ExampleSource)
       => /\ phase' = "idle"
          /\ SubSeq(ast'.sourceOrder, 2, 3) = <<Let("z", ExampleExpr), ExampleAction>>
  /\ (AboutToExecute /\ ast.sourceOrder[pc].kind = "let")
       => /\ IsLetSource => LetBoundAs(LetTextOf(source))
          /\ source = ExampleSource => Get(ctx', "z") = N(10)
          /\ \E name \in {ast.sourceOrder[pc].value.name} :
               /\ name \in DOMAIN ctx'
               /\ \A k \in (DOMAIN ctx \cup DOMAIN ctx') \ {name} :
                    k \in DOMAIN ctx /\ k \in DOMAIN ctx' /\ ctx'[k] = ctx[k]
          /\ outputs' = outputs /\ heap' = heap /\ console' = console
  /\ (AboutToExecute /\ pc = 3 /\ source = ExampleSource)
       => outputs' = ("z" :> N(10))

LetBindsGroupedValue == [][LetBindsGroupedValueStep]_vars

LetBindsGroupedValueWitness ==
  /\ source = ExampleSource
  /\ JustExecuted
  /\ Last = Let("z", ExampleExpr)
  /\ Get(ctx, "x") = N(3)
  /\ GetProp(heap, Get(ctx, "obj"), "y") = N(4)
  /\ Get(ctx, "z") = N(10)

(***************************************************************************)
(* C5.  parseSource throws, and returns no Program, whenever a statement   *)
(* line of the source is malformed: a line with a recognised prefix whose  *)
(* syntax the grammar does not admit, or a line that matches no statement  *)
(* rule, wherever in the source that line stands.                          *)
(***************************************************************************)
HasMalformedLine(lines) == \E i \in 1..Len(lines) : lines[i] \in MalformedLines
Rejected == phase = "rejected" /\ DOMAIN ast = {"error"}

MalformedLineRejected ==
  (phase # "source" /\ HasMalformedLine(SplitLines(source))) => Rejected

(***************************************************************************)
(* C6.  In execute, "%out: n" stores under n a fresh copy of the preferred *)
(* value as it stands at that point: ctx.sorted if a model result is       *)
(* present, otherwise the seeded input, otherwise null, whatever the       *)
(* context holds under n.  A %out placed before the model statement        *)
(* therefore captures the unsorted input.                                  *)
(***************************************************************************)
PreferredOf(c) ==
  IF ~Nullish(Get(c, "sorted")) THEN Get(c, "sorted")
  ELSE IF ~Nullish(Get(c, "input")) THEN Get(c, "input")
  ELSE Null

\* the preferred value before statement i: the result of the sort that ran,
\* else the input the context was seeded from
PreferredAt(i) ==
  IF SortRanBefore(i) THEN Get(ctx, "sorted")
  ELSE IF ~Nullish(ast.input) THEN ast.input
  ELSE Null

OutStoresPreferredStep ==
  (AboutToExecute /\ ast.sourceOrder[pc].kind = "out") =>
    LET n == ast.sourceOrder[pc].value
    IN /\ DeepMap(heap', outputs')
            = Put(DeepMap(heap, outputs), n, Deref(heap, PreferredAt(pc)))
       /\ IsRef(outputs'[n]) => outputs'[n].a > Len(heap)
       /\ ctx' = ctx

OutStoresPreferred == [][OutStoresPreferredStep]_vars

(***************************************************************************)
(* C7.  On the bytecode path the instruction compiled from "%out: n"       *)
(* stores under n the preferred value: ctx.sorted if present, else the     *)
(* seeded input, else null, whatever the context holds under n and also    *)
(* when the machine was started without an input.                          *)
(***************************************************************************)
AtOutInstruction(i) ==
  /\ AboutToStep
  /\ i \in 1..Len(ast.sourceOrder)
  /\ ast.sourceOrder[i].kind = "out"
  /\ ip = StmtOffset(i)
  /\ vbin.code[ip + 1] = OpEMIT_PREFERRED

VMOutStoresPreferredStep ==
  \A i \in 1..Len(ast.sourceOrder) :
    AtOutInstruction(i) =>
      DeepMap(heap', voutputs')
        = Put(DeepMap(heap, voutputs), ast.sourceOrder[i].value, Deref(heap, PreferredOf(vctx)))

VMOutStoresPreferred == [][VMOutStoresPreferredStep]_vars

(***************************************************************************)
(* C8.  After context seeding, on both execution paths, the context key    *)
(* input holds the raw input value, for every input.                       *)
(***************************************************************************)
InputKeyHoldsRawInput ==
  /\ (phase = "execute" /\ pc = 1) => Get(ctx, "input") = ast.input
  /\ (phase = "run" /\ verror = "" /\ ip = 0) => Get(vctx, "input") = vinput

(***************************************************************************)
(* C9.  execute does not modify the Program it is given, and a second      *)
(* execution of the same Program returns outputs and a context equal to    *)
(* those of the first.                                                     *)
(***************************************************************************)
ExecuteIsIndependent ==
  /\ Deref(heap, ast.input) = source.input
  /\ Len(results) >= 2 => results[2] = results[1]

(***************************************************************************)
(* C10.  A sort model whose algorithm is neither bubble nor native fails   *)
(* with a runtime error on the tree-walking path and on the bytecode path. *)
(***************************************************************************)
HasUnknownAlgorithm ==
  \E i \in 1..Len(ast.sourceOrder) :
    /\ IsSort(ast.sourceOrder[i])
    /\ AlgorithmOf(ast.sourceOrder[i]) \notin {Undef, Str("bubble"), Str("native")}

UnknownAlgorithmFails ==
  HasUnknownAlgorithm =>
    /\ \A k \in 1..Len(results) : results[k].error # ""
    /\ (vresult # NoResult /\ vbin.code = bin.code) => vresult.error # ""

(***************************************************************************)
(* C11.  Executing a program whose model type is neither sort nor tool     *)
(* fails with a runtime error at the model statement: no later statement   *)
(* runs and no result is returned, on the tree-walking path and on the     *)
(* bytecode path.                                                          *)
(***************************************************************************)
IsUnknownModel(s) == s.kind = "model" /\ s.value.type \notin {"sort", "tool"}

UnknownModelTypeFails ==
  \A i \in 1..Len(ast.sourceOrder) :
    IsUnknownModel(ast.sourceOrder[i]) =>
      /\ phase = "execute" => pc <= i
      /\ \A k \in 1..Len(results) : results[k].error # ""
      /\ (phase = "run" /\ verror = "" /\ vbin.code = bin.code) => ip <= StmtOffset(i)
      /\ (vresult # NoResult /\ vbin.code = bin.code) => vresult.error # ""

(***************************************************************************)
(* C12.  The sort model takes as its list the input itself when the input  *)
(* is an array, otherwise the list entry of the context, otherwise the     *)
(* list field of the input.  When none of these is an array the execution  *)
(* fails with a runtime error and ctx.sorted is not written.  The rule is  *)
(* the same in execute and in the SORT instruction of the machine.         *)
(***************************************************************************)
IsKnownSort(s) ==
  IsSort(s) /\ AlgorithmOf(s) \in {Undef, Str("bubble"), Str("native")}

\* the list the rule names for an input and a context
ListOf(h, input, c) ==
  IF IsArrayRef(h, input) THEN input
  ELSE IF IsArrayRef(h, Get(c, "list")) THEN Get(c, "list")
  ELSE IF isObject(h, input) /\ IsArrayRef(h, GetProp(h, input, "list"))
    THEN GetProp(h, input, "list")
  ELSE Undef

\* the context c2 and the error err2 a sort of that list leaves
SortedFrom(h, list, c, h2, c2, err2) ==
  IF list = Undef
    THEN err2 # "" /\ c2 = c
    ELSE /\ err2 = ""
         /\ LET sorted == Deref(h2, Get(c2, "sorted"))
            IN /\ sorted.t = "array"
               /\ Permutation(sorted.v, Deref(h, list).v)
               /\ IsNumberArray(Deref(h, list)) => Ascending(sorted.v)

SortTakesInferredListStep ==
  /\ (AboutToExecute /\ IsKnownSort(ast.sourceOrder[pc]))
       => SortedFrom(heap, ListOf(heap, ast.input, ctx), ctx, heap', ctx', error')
  /\ \A i \in 1..Len(ast.sourceOrder) :
       (AboutToStep /\ IsKnownSort(ast.sourceOrder[i]) /\ ip = StmtOffset(i)
          /\ vbin.code[ip + 1] = OpSORT)
         => SortedFrom(heap, ListOf(heap, vinput, vctx), vctx, heap', vctx', verror')

SortTakesInferredList == [][SortTakesInferredListStep]_vars

(***************************************************************************)
(* C13.  A conditional action written "!if true then <action>" performs    *)
(* its action on every execution: emit stores a value under its name, log  *)
(* writes its message, set binds its name.  The agent example of the       *)
(* README, a tool model followed by "!if true then emit plan", returns     *)
(* the list of pending tool requests under the output name plan.           *)
(***************************************************************************)
IsLiteralTrue(cond) == cond.left = "true" /\ cond.op = NoOp

AgentRequest ==
  JObj(("kind" :> Str("tool"))
       @@ ("args" :> JObj(("name" :> Str("fs.write")) @@ ("file" :> Str("file"))
                          @@ ("content" :> Str("content")))))

Performed(action) ==
  CASE action.kind = "emit" -> action.name \in DOMAIN outputs'
    [] action.kind = "log" -> console' = Append(console, action.message)
    [] action.kind = "set" -> Get(ctx', action.name) = action.value

LiteralTrueActsStep ==
  /\ (AboutToExecute /\ ast.sourceOrder[pc].kind = "action"
        /\ IsLiteralTrue(ast.sourceOrder[pc].value.condition))
       => Performed(ast.sourceOrder[pc].value.action)
  /\ (source = AgentSource /\ phase = "execute" /\ phase' = "idle")
       => /\ results'[Len(results')].error = ""
          /\ Get(results'[Len(results')].outputs, "plan") = JArr(<<AgentRequest>>)

LiteralTrueActs == [][LiteralTrueActsStep]_vars

(***************************************************************************)
(* C14.  In execute, a tool model appends exactly one record               *)
(* {kind: tool, args: the declared arguments} to the context list          *)
(* __requests, which it creates empty when absent, makes the context key   *)
(* plan refer to that same list, and changes nothing else: every other     *)
(* context entry, ctx.sorted among them, every other object, the Outputs   *)
(* and the console are as before, and no error is raised.                  *)
(***************************************************************************)
IsTool(s) == s.kind = "model" /\ s.value.type = "tool"

RequestsBefore ==
  IF IsArrayRef(heap, Get(ctx, "__requests")) THEN Deref(heap, ctx["__requests"]).v ELSE <<>>

RequestRecord(args) == JObj(("kind" :> Str("tool")) @@ ("args" :> JObj(args)))

ToolAppendsRequestStep ==
  (AboutToExecute /\ IsTool(ast.sourceOrder[pc])) =>
    /\ error' = ""
    /\ IsArrayRef(heap', Get(ctx', "__requests"))
    /\ Deref(heap', Get(ctx', "__requests")).v
         = Append(RequestsBefore, RequestRecord(ast.sourceOrder[pc].value.args))
    /\ Get(ctx', "plan") = Get(ctx', "__requests")
    /\ IsArrayRef(heap, Get(ctx, "__requests")) => Get(ctx', "__requests") = ctx["__requests"]
    /\ DOMAIN ctx' = DOMAIN ctx \cup {"__requests", "plan"}
    /\ \A k \in DOMAIN ctx \ {"__requests", "plan"} : ctx'[k] = ctx[k]
    /\ \A a \in 1..Len(heap) : Ref(a) # Get(ctx', "__requests") => heap'[a] = heap[a]
    /\ Deref(heap', Get(ctx', "sorted")) = Deref(heap, Get(ctx, "sorted"))
    /\ outputs' = outputs
    /\ DeepMap(heap', outputs') = DeepMap(heap, outputs)
    /\ console' = console

ToolAppendsRequest == [][ToolAppendsRequestStep]_vars

\* the second execution has appended to the list the payload holds
ToolAppendsRequestWitness ==
  /\ JustExecuted /\ IsTool(Last)
  /\ runs = 2
  /\ source.input = JObj(("__requests" :> JArr(<<>>)))
  /\ Len(Deref(heap, Get(ctx, "plan")).v) = 2
  /\ Get(ctx, "plan") = Get(ctx, "__requests")

(***************************************************************************)
(* C15.  parseSource fails if the source declares %in, %model or %out more *)
(* than once.  Every Program it returns has at most one input, one model   *)
(* and one out, and its sourceOrder holds at most one item of each of      *)
(* these three kinds, the one the Program's field holds.                   *)
(***************************************************************************)
Declarations(lines, prefix) ==
  Cardinality({i \in 1..Len(lines) : StartsWith(Trim(lines[i]), prefix)})

DeclaresTwice(src) ==
  \E prefix \in {"%in:", "%model:", "%out:"} : Declarations(SplitLines(src), prefix) > 1

ItemsOf(kind) == {i \in 1..Len(ast.sourceOrder) : ast.sourceOrder[i].kind = kind}

AtMostOne(kind, field) ==
  /\ Cardinality(ItemsOf(kind)) <= 1
  /\ ItemsOf(kind) = {} => field = Undef
  /\ \A i \in ItemsOf(kind) : field = ast.sourceOrder[i].value

\* the source and the Program stay as they are once parseSource has returned,
\* so the source is looked at in the state parseSource leaves
DuplicateDeclarationRejected ==
  /\ (phase = "idle" /\ runs = 0 /\ bin = NoBin /\ DeclaresTwice(source)) => Rejected
  /\ phase = "rejected" => Rejected
  /\ phase \notin {"source", "rejected"}
       => /\ AtMostOne("input", ast.input)
          /\ AtMostOne("model", ast.model)
          /\ AtMostOne("out", IF ast.out = Undef THEN Undef ELSE ast.out.v)

DuplicateDeclarationRejectedWitness ==
  /\ source = "@t:\n%in:\n[1]\n%out: x\n%in:\n[2]"
  /\ phase = "rejected"
  /\ ast = [error |-> "Duplicate %in block"]

(***************************************************************************)
(* C16.  runBytecode fails before executing any instruction, returning     *)
(* neither outputs nor a context, on a buffer whose magic tag is not ALBC, *)
(* whose version byte is not 1, or whose constant pool holds an entry with *)
(* a type tag other than 0, 1, 2 or 3.                                     *)
(***************************************************************************)
IsDamaged(b) ==
  \/ b.magic # <<65, 76, 66, 67>>
  \/ b.version # 1
  \/ \E i \in 1..Len(b.consts) : b.consts[i].type \notin {0, 1, 2, 3}

DamagedBytecodeFailsStep ==
  /\ (phase = "idle" /\ phase' = "run" /\ IsDamaged(vbin'))
       => verror' # "" /\ vctx' = Empty /\ voutputs' = Empty
  /\ (phase = "run" /\ IsDamaged(vbin))
       => /\ phase' = "done"
          /\ DOMAIN vresult' = {"error"}
          /\ vresult'.error # ""
          /\ UNCHANGED <<heap, ip, stack, vctx, voutputs>>

DamagedBytecodeFails == [][DamagedBytecodeFailsStep]_vars

DamagedBytecodeFailsWitness ==
  /\ phase = "done"
  /\ vbin # bin
  /\ vbin.magic = Magic /\ vbin.version = 1 /\ vbin.codeLen > 0
  /\ vresult = [error |-> "Unknown const type"]

(***************************************************************************)
(* C17.  Every value stored in Outputs by %out or emit is a structural     *)
(* copy: it shares no array or object with the context, the input or the   *)
(* Program, and a later statement that changes the context (let, set,      *)
(* sort, tool) leaves every output already emitted unchanged, in execute   *)
(* and in the machine.                                                     *)
(***************************************************************************)
\* the arrays and objects a value reaches
RECURSIVE Reach(_, _)
Reach(h, v) ==
  IF ~IsRef(v) THEN {}
  ELSE {v.a} \cup UNION { Reach(h, h[v.a].v[i]) : i \in DOMAIN h[v.a].v }

ReachOfAll(h, m) == UNION { Reach(h, m[k]) : k \in DOMAIN m }

Separate(h, outs, c) ==
  ReachOfAll(h, outs) \cap (ReachOfAll(h, c) \cup Reach(h, ast.input)) = {}

\* an output entry that is still held keeps its value
Kept(h, outs, h2, outs2) ==
  \A k \in DOMAIN outs \cap DOMAIN outs2 :
    outs2[k] = outs[k] => Deref(h2, outs2[k]) = Deref(h, outs[k])

StoresOutput(s) ==
  s.kind = "out" \/ (s.kind = "action" /\ s.value.action.kind = "emit")

OutputsAreCopiesStep ==
  /\ Separate(heap', outputs', ctx')
  /\ Separate(heap', voutputs', vctx')
  /\ Kept(heap, outputs, heap', outputs')
  /\ Kept(heap, voutputs, heap', voutputs')
  /\ (AboutToExecute /\ ~StoresOutput(ast.sourceOrder[pc])) => outputs' = outputs
  /\ (AboutToStep /\ vbin.code[ip + 1] \notin {OpEMIT_PREFERRED, OpEMIT_TOP})
       => voutputs' = voutputs

OutputsAreCopies == [][OutputsAreCopiesStep]_vars

\* the %out before the tool model has kept the input as it was, while the
\* tool has appended its request to the input's own list
OutputsAreCopiesWitness ==
  /\ JustExecuted /\ IsTool(Last)
  /\ runs = 1
  /\ Deref(heap, Get(outputs, "x")) = JObj(("__requests" :> JArr(<<>>)))
  /\ Len(Deref(heap, Get(ctx, "__requests")).v) = 1
  /\ Deref(heap, ast.input) # Deref(heap, Get(outputs, "x"))

(***************************************************************************)
(* C18.  Running the sort model, bubble or native, in execute or in the    *)
(* machine, leaves the array it sorts (the input array or the list it was  *)
(* inferred from) unchanged in content and order, as it leaves every other *)
(* array and object; only ctx.sorted changes, and it receives a new array. *)
(***************************************************************************)
\* what a sort may change of a context c and the objects h
OnlySortedWritten(h, c, h2, c2, err2) ==
  /\ \A a \in 1..Len(h) : h2[a] = h[a]
  /\ DOMAIN c2 \subseteq DOMAIN c \cup {"sorted"}
  /\ \A k \in DOMAIN c \ {"sorted"} : k \in DOMAIN c2 /\ c2[k] = c[k]
  /\ err2 = "" => (IsArrayRef(h2, Get(c2, "sorted")) /\ Get(c2, "sorted").a > Len(h))
  /\ err2 # "" => c2 = c

SortLeavesListStep ==
  /\ (AboutToExecute /\ IsSort(ast.sourceOrder[pc]))
       => OnlySortedWritten(heap, ctx, heap', ctx', error') /\ outputs' = outputs
  /\ (AboutToStep /\ vbin.code[ip + 1] = OpSORT)
       => OnlySortedWritten(heap, vctx, heap', vctx', verror') /\ voutputs' = voutputs

SortLeavesList == [][SortLeavesListStep]_vars

\* the native sort of the machine has sorted the example and left it as it was
SortLeavesListWitness ==
  /\ phase = "run" /\ verror = "" /\ ip > 0
  /\ \E i \in 1..Len(ast.sourceOrder) :
       IsSort(ast.sourceOrder[i]) /\ AlgorithmOf(ast.sourceOrder[i]) = Str("native")
  /\ Deref(heap, Get(vctx, "input")) = Example
  /\ Deref(heap, Get(vctx, "sorted")) = ExampleSorted

(***************************************************************************)
(* C19.  Bubble sort with a configured key is stable: the result holds the *)
(* elements of the input, and any two elements whose key values are equal  *)
(* stand in the result in the order they had in the input, for every input *)
(* array, in the tree-walker and in the machine.                           *)
(***************************************************************************)
KeyOf(e, key) == IF e.t = "object" THEN Get(e.v, key) ELSE Undef

\* some one-to-one placing f of the result's positions on the input's
\* positions keeps the order of elements with equal keys
Stable(in, out, key) ==
  /\ Len(out) = Len(in)
  /\ \E f \in [1..Len(in) -> 1..Len(in)] :
       /\ \A p, r \in 1..Len(in) : p # r => f[p] # f[r]
       /\ \A p \in 1..Len(in) : out[p] = in[f[p]]
       /\ \A p, r \in 1..Len(in) :
            (p < r /\ KeyOf(out[p], key) = KeyOf(out[r], key)) => f[p] < f[r]

IsKeyedBubble(s) == IsBubble(s) /\ Truthy(Get(s.value.args, "key"))
KeyName(s) == s.value.args["key"].v

BubbleSortStableStep ==
  /\ (AboutToExecute /\ IsKeyedBubble(ast.sourceOrder[pc]) /\ IsArrayRef(heap, Get(ctx, "input")))
       => /\ error' = ""
          /\ Stable(Deref(heap, ctx["input"]).v, Deref(heap', Get(ctx', "sorted")).v,
                    KeyName(ast.sourceOrder[pc]))
  /\ \A i \in 1..Len(ast.sourceOrder) :
       (AboutToStep /\ ip = StmtOffset(i) /\ IsKeyedBubble(ast.sourceOrder[i])
          /\ vbin.code[ip + 1] = OpSORT /\ IsArrayRef(heap, Get(vctx, "input")))
         => /\ verror' = ""
            /\ Stable(Deref(heap, vctx["input"]).v, Deref(heap', Get(vctx', "sorted")).v,
                      KeyName(ast.sourceOrder[i]))

BubbleSortStable == [][BubbleSortStableStep]_vars

\* the two elements with key 1 have moved before the element with key 2 and
\* kept their order
BubbleSortStableWitness ==
  /\ JustExecuted /\ IsKeyedBubble(Last)
  /\ Deref(heap, Get(ctx, "input"))
       = JArr(<<KeyedElem(N(2), 1), KeyedElem(N(1), 2), KeyedElem(N(1), 3)>>)
  /\ Deref(heap, Get(ctx, "sorted"))
       = JArr(<<KeyedElem(N(1), 2), KeyedElem(N(1), 3), KeyedElem(N(2), 1)>>)

(***************************************************************************)
(* C20.  Blank lines and comment-only lines between two statements, also   *)
(* directly after the JSON payload of a %in block and before the next      *)
(* statement, are skipped: the source parses to the Program that the       *)
(* source without these lines parses to, and to no parse error.            *)
(***************************************************************************)
IsStatementLine(l) == ~IsEmptyLine(l)

WithoutEmptyLines(src) ==
  JoinLines(SelectSeq(SplitLines(src), IsStatementLine), 1,
            Len(SelectSeq(SplitLines(src), IsStatementLine)))

SameProgramAs(r) ==
  r.err = "" => (phase' = "idle" /\ ast' = r.ast /\ heap' = r.h)

EmptyLinesSkippedStep ==
  phase = "source" => SameProgramAs(parseSource(WithoutEmptyLines(source)))

EmptyLinesSkipped == [][EmptyLinesSkippedStep]_vars

(***************************************************************************)
(* C21.  When the machine decodes an opcode it has no case for, it stops   *)
(* at that position without raising an error: no context entry, output,    *)
(* stack slot or heap cell changes, the loop ends, and the caller gets the *)
(* Outputs and the context built by the instructions executed before it.   *)
(***************************************************************************)
AtUnknownOpcode == AboutToStep /\ vbin.code[ip + 1] \notin KnownOps

UnknownOpcodeHaltsStep ==
  /\ AtUnknownOpcode
       => /\ verror' = ""
          /\ ip' >= vbin.codeLen
          /\ phase' = "run"
          /\ UNCHANGED <<heap, stack, vctx, voutputs, vresult>>
  /\ (phase = "run" /\ verror = "" /\ ip >= vbin.codeLen)
       => /\ phase' = "done"
          /\ vresult' = [error |-> "", outputs |-> DeepMap(heap, voutputs),
                         context |-> DeepMap(heap, vctx)]
          /\ UNCHANGED <<heap, vctx, voutputs>>

UnknownOpcodeHalts == [][UnknownOpcodeHaltsStep]_vars

\* a run of `%out: x` and `let list = 7` whose second statement starts with
\* an unknown opcode: it returned the output and a context without list
UnknownOpcodeHaltsWitness ==
  /\ phase = "done"
  /\ vresult.error = ""
  /\ ast.sourceOrder = <<Out("x"), Let("list", Number(N(7)))>>
  /\ vbin.code[6] \notin KnownOps
  /\ DOMAIN vresult.outputs = {"x"}
  /\ "list" \notin DOMAIN vresult.context

(***************************************************************************)
(* C22.  For every conditional action the compiler emits, the offset       *)
(* patched into its JUMP_IF_FALSE is the byte length of the instructions   *)
(* of the action's effect, counted from the byte after the 4-byte offset   *)
(* field.  When the condition is false the machine's instruction pointer   *)
(* lands on the first instruction of the next statement or on the end of   *)
(* the code, never inside an instruction and never outside the code, and   *)
(* no instruction of the effect executes.                                  *)
(***************************************************************************)
\* the bytes of the instructions compiled for the effect alone
EffectLen(a) == Len(compileAction(a, [pool |-> EmptyPool, code |-> <<>>]).code)
\* the offset of the jump instruction of the action that is statement i
JumpOffset(i) == StmtOffset(i + 1) - EffectLen(ast.sourceOrder[i].value) - 5

IsAction(i) == i \in 1..Len(ast.sourceOrder) /\ ast.sourceOrder[i].kind = "action"

JumpIsPatched ==
  \A i \in 1..Len(ast.sourceOrder) :
    IsAction(i) =>
      /\ JumpOffset(i) >= StmtOffset(i) + 5
      /\ bin.code[JumpOffset(i) + 1] = OpJUMP_IF_FALSE
      /\ GetI32(bin.code, JumpOffset(i) + 1) = EffectLen(ast.sourceOrder[i].value)

\* the machine is about to run the jump of statement i of the compiled code
\* with a false condition on the stack
AtFalseJump(i) ==
  /\ AboutToStep
  /\ vbin.code = bin.code
  /\ IsAction(i)
  /\ ip = JumpOffset(i)
  /\ ~Truthy(Top(stack))

JumpSkipsEffectStep ==
  /\ (phase = "idle" /\ bin # NoBin) => JumpIsPatched
  /\ \A i \in 1..Len(ast.sourceOrder) :
       AtFalseJump(i) =>
         /\ ip' = StmtOffset(i + 1)
         /\ ip' <= vbin.codeLen
         /\ ip' \in InstrStarts(vbin.code, 0) \cup {vbin.codeLen}
         /\ verror' = ""
         /\ UNCHANGED <<heap, vctx, voutputs>>

JumpSkipsEffect == [][JumpSkipsEffectStep]_vars

\* `!if z >= 10 then emit z` with no z in the context, followed by another
\* statement: the machine stands at that statement and has not emitted z
JumpSkipsEffectWitness ==
  /\ phase = "run" /\ verror = "" /\ vbin = bin
  /\ \E i \in 1..(Len(ast.sourceOrder) - 1) :
       /\ ast.sourceOrder[i] = Action(Cond("z", Str(">="), N(10)), Emit("z"))
       /\ ip = StmtOffset(i + 1)
       /\ ip < vbin.codeLen
       /\ "z" \notin DOMAIN voutputs

(***************************************************************************)
(* C23.  Statements take effect in source order, each exactly once.  The   *)
(* k-th step of an execution runs the k-th statement against the context   *)
(* left by the k - 1 statements before it: a let binds the value of its    *)
(* expression in that context, an action tests its condition in that       *)
(* context and a set whose condition held binds its value; a write stays   *)
(* in the context for every later statement and changes nothing an earlier *)
(* statement has stored.  `!if z >= 10 then emit z` emits only when the    *)
(* let that makes z >= 10 true comes before it.                            *)
(***************************************************************************)
LetZ == Let("z", Binary("+", Binary("*", Ident("x"), Number(N(2))), Member(Ident("obj"), "y")))
EmitZ == Action(Cond("z", Str(">="), N(10)), Emit("z"))
SetZ == Action(Cond("x", NoOp, Undef), Set("z", N(10)))
XY == JObj(("x" :> N(3)) @@ ("obj" :> JObj(("y" :> N(4)))))

InSourceOrderStep ==
  /\ (phase = "idle" /\ phase' = "execute") => pc' = 1
  /\ (phase = "execute" /\ phase' = "idle" /\ error = "") => pc = Len(ast.sourceOrder) + 1
  /\ AboutToExecute =>
       /\ phase' = "execute"
       /\ error' = "" => pc' = pc + 1
       /\ ast.sourceOrder[pc].kind = "let" =>
            /\ ctx' = Put(ctx, ast.sourceOrder[pc].value.name,
                          evalExpression(heap, ast.sourceOrder[pc].value.expr, ctx))
            /\ UNCHANGED <<heap, outputs, console, error>>
       /\ ast.sourceOrder[pc].kind = "action" =>
            LET a == ast.sourceOrder[pc].value
                held == evalCondition(heap, a.condition, ctx)
            IN /\ ~held => UNCHANGED <<heap, ctx, outputs, console, error>>
               /\ (held /\ a.action.kind = "set") =>
                    /\ ctx' = Put(ctx, a.action.name, a.action.value)
                    /\ UNCHANGED <<heap, outputs, console, error>>
               /\ (held /\ a.action.kind = "emit") =>
                    /\ DOMAIN outputs' = DOMAIN outputs \cup {a.action.name}
                    /\ ctx' = ctx
               /\ (held /\ a.action.kind = "log") =>
                    /\ console' = Append(console, a.action.message)
                    /\ UNCHANGED <<heap, ctx, outputs, error>>
       /\ ast.sourceOrder[pc].kind \in {"input", "node", "edge", "cond"} =>
            UNCHANGED <<heap, ctx, outputs, console, error>>
  /\ source.input = XY =>
       /\ source.stmts = <<LetZ, EmitZ>> =>
            (Len(results) >= 1 => results[1].error = "" /\ results[1].outputs = ("z" :> N(10)))
       /\ source.stmts = <<EmitZ, LetZ>> =>
            (Len(results) >= 1 => /\ results[1].error = ""
                                  /\ results[1].outputs = Empty
                                  /\ results[1].context["z"] = N(10))
       /\ source.stmts = <<SetZ, EmitZ>> =>
            (Len(results) >= 1 => results[1].error = "" /\ results[1].outputs = ("z" :> N(10)))
       /\ source.stmts = <<EmitZ, SetZ>> =>
            (Len(results) >= 1 => /\ results[1].error = ""
                                  /\ results[1].outputs = Empty
                                  /\ results[1].context["z"] = N(10))

InSourceOrder == [][InSourceOrderStep]_vars

\* both orders of the let and the emit have been executed to the end on the
\* input { x: 3, obj: { y: 4 } }: this is the one where the emit came first
InSourceOrderWitness ==
  /\ source.input = XY
  /\ source.stmts = <<EmitZ, LetZ>>
  /\ Len(results) >= 1
  /\ results[1].error = ""
  /\ results[1].outputs = Empty
  /\ results[1].context["z"] = N(10)

(***************************************************************************)
(* C24.  For every expression tree e and every context, the instructions   *)
(* compileExpr emits for e leave on the operand stack exactly one value    *)
(* more, equal to evalExpression(e, ctx): when the machine has run the     *)
(* instructions of the expression of a let statement and stands at the     *)
(* SET_CTX that follows them, the stack holds that one value.  Operands    *)
(* are taken left before right, a - b and a / b are applied in that order, *)
(* and a member of an undefined or null base is undefined.                 *)
(***************************************************************************)
\* the machine stands between the expression of the let that is statement i
\* and the SET_CTX that stores its value, in the module as compiled
AfterExpression(i) ==
  /\ phase = "run" /\ verror = "" /\ vbin = bin
  /\ ast.sourceOrder[i].kind = "let"
  /\ ip = StmtOffset(i + 1) - 5

CompiledExprMatchesEval ==
  \A i \in 1..Len(ast.sourceOrder) :
    AfterExpression(i) =>
      stack = <<evalExpression(heap, ast.sourceOrder[i].value.expr, vctx)>>

(***************************************************************************)
(* C25.  runBytecode terminates on every module compileToBytecode          *)
(* produces: every jump offset of such a module is non-negative, every     *)
(* instruction that completes moves the instruction pointer forward, so    *)
(* the pointer reaches the end of the code, and a call that has begun      *)
(* returns.                                                                *)
(***************************************************************************)
JumpsAreForward ==
  bin # NoBin =>
    \A at \in InstrStarts(bin.code, 0) :
      bin.code[at + 1] = OpJUMP_IF_FALSE => GetI32(bin.code, at + 1) >= 0

IpMovesForwardStep ==
  /\ (phase = "idle" /\ bin # NoBin) => JumpsAreForward
  /\ (AboutToStep /\ vbin = bin) => (verror' # "" \/ (ip' > ip /\ ip' <= vbin.codeLen))

RunBytecodeTerminates ==
  /\ [][IpMovesForwardStep]_vars
  /\ (phase = "run" /\ vbin = bin) ~> (phase = "done" /\ vresult # NoResult)

\* a run of a module that holds a conditional jump and a sort has returned
\* its result
RunBytecodeTerminatesWitness ==
  /\ phase = "done"
  /\ vbin = bin
  /\ vresult.error = ""
  /\ ip = vbin.codeLen
  /\ \E at \in InstrStarts(bin.code, 0) : bin.code[at + 1] = OpJUMP_IF_FALSE
  /\ \E at \in InstrStarts(bin.code, 0) : bin.code[at + 1] = OpSORT

(***************************************************************************)
(* C26.  Every Condition of a Program the parser returns, of a ? line or   *)
(* of an !if line, has a comparison operator and a right-hand value, or    *)
(* neither of them: a condition text with an operator and no value, or     *)
(* with a value and no operator, is rejected and not stored.               *)
(***************************************************************************)
IsParsed == phase \notin {"source", "rejected"}

ConditionOf(item) == IF item.kind = "cond" THEN item.value ELSE item.value.condition

ConditionIsWhole ==
  IsParsed =>
    \A i \in 1..Len(ast.sourceOrder) :
      ast.sourceOrder[i].kind \in {"cond", "action"} =>
        (ConditionOf(ast.sourceOrder[i]).op = Undef
           <=> ConditionOf(ast.sourceOrder[i]).right = Undef)

(***************************************************************************)
(* C27.  Within one compilation the constant pool gives two literals the   *)
(* same index exactly when they have the same runtime type and the same    *)
(* value: the pool holds no literal twice, two different literals never    *)
(* share an index (the number 1 and the string "1" get different ones),    *)
(* the entry at a literal's index is that literal, and every index         *)
(* written into the code is less than the pool length.                     *)
(***************************************************************************)
\* the values the compiler hands to the pool for an expression
RECURSIVE LiteralsOfExpr(_)
LiteralsOfExpr(e) ==
  CASE e.kind \in {"number", "string", "boolean"} -> {e.value}
    [] e.kind = "null" -> {Null}
    [] e.kind = "ident" -> {Str(e.name)}
    [] e.kind = "member" -> LiteralsOfExpr(e.object) \cup {Str(e.property)}
    [] e.kind = "binary" -> LiteralsOfExpr(e.left) \cup LiteralsOfExpr(e.right)

LiteralsOfAction(a) ==
  {Str(a.condition.left)}
    \cup (IF Truthy(a.condition.op) THEN {a.condition.right} ELSE {})
    \cup (CASE a.action.kind = "emit" -> {Str(a.action.name)}
             [] a.action.kind = "set" -> {a.action.value, Str(a.action.name)}
             [] OTHER -> {})

\* and for a statement
LiteralsOf(step) ==
  CASE step.kind = "model" /\ step.value.type = "sort" ->
         {OrElse(Get(step.value.args, "algorithm"), Str("bubble"))}
           \cup (IF Truthy(OrElse(Get(step.value.args, "key"), Str("")))
                   THEN {Get(step.value.args, "key")} ELSE {})
    [] step.kind = "out" -> {Str(step.value)}
    [] step.kind = "let" -> LiteralsOfExpr(step.value.expr) \cup {Str(step.value.name)}
    [] step.kind = "action" -> LiteralsOfAction(step.value)
    [] OTHER -> {}

Literals == UNION { LiteralsOf(ast.sourceOrder[i]) : i \in 1..Len(ast.sourceOrder) }

\* the pool at the end of the compilation of the Program
PoolOf(tree) == compileSteps(tree.sourceOrder, 1, [pool |-> EmptyPool, code |-> <<>>]).pool

\* the operand of the instruction at offset `at` is a pool index below n
OperandInPool(code, at, n) ==
  /\ code[at + 1] \in {OpCONST, OpGET_CTX, OpSET_CTX, OpMEMBER, OpSORT, OpEMIT_PREFERRED,
                        OpEMIT_TOP}
       => GetU32(code, at + 1) < n
  /\ (code[at + 1] = OpSORT /\ SubSeq(code, at + 6, at + 9) # NoKey)
       => GetU32(code, at + 5) < n

PoolIsExact(pool) ==
  /\ \A i, j \in 1..Len(pool.list) : pool.list[i] = pool.list[j] => i = j
  /\ \A v \in Literals :
       /\ getId(pool, v).id < Len(pool.list)
       /\ pool.list[getId(pool, v).id + 1] = v
  /\ \A v, w \in Literals : getId(pool, v).id = getId(pool, w).id <=> v = w
  /\ \A at \in InstrStarts(bin.code, 0) : OperandInPool(bin.code, at, Len(pool.list))

ConstPoolIsExact ==
  (phase = "idle" /\ bin # NoBin) => PoolIsExact(PoolOf(ast))

(***************************************************************************)
(* C28.  For every Program parseSource returns, sourceOrder holds exactly  *)
(* the parsed statements, one entry per statement, in the order of the     *)
(* source: the input, the model and the out and every entry of nodes,      *)
(* edges, conditions and actions stand exactly once in sourceOrder, and    *)
(* the entries of each bucket are in the relative order they have in       *)
(* sourceOrder.                                                            *)
(* The statements of a source are read off its lines: each line that is    *)
(* neither blank nor a comment opens a statement of the kind its first     *)
(* characters name, and the lines of an %in block belong to the %in.       *)
(***************************************************************************)
KindOfLine(t) ==
  IF StartsWith(t, "%in:") THEN "input"
  ELSE IF StartsWith(t, "%model:") THEN "model"
  ELSE IF StartsWith(t, "%out:") THEN "out"
  ELSE IF StartsWith(t, "+") THEN "node"
  ELSE IF StartsWith(t, "->") THEN "edge"
  ELSE IF StartsWith(t, "?") THEN "cond"
  ELSE IF StartsWith(t, "!") THEN "action"
  ELSE "let"
RECURSIVE StatementKinds(_, _)
StatementKinds(lines, idx) ==
  LET i == skipEmpty(lines, idx)
      k == KindOfLine(Trim(lines[i]))
  IN IF i > Len(lines) THEN <<>>
     ELSE <<k>> \o StatementKinds(lines, IF k = "input" THEN PayloadEnd(lines, i + 1) ELSE i + 1)
\* the statements of the source text, the task declaration left out
KindsOfSource(src) ==
  StatementKinds(SplitLines(src), skipEmpty(SplitLines(src), 1) + 1)
KindsOf(order) == [i \in 1..Len(order) |-> order[i].kind]
\* the values of the entries of one kind, in the order of sourceOrder
RECURSIVE ValuesOfKind(_, _, _)
ValuesOfKind(order, kind, i) ==
  IF i > Len(order) THEN <<>>
  ELSE IF order[i].kind = kind THEN <<order[i].value>> \o ValuesOfKind(order, kind, i + 1)
  ELSE ValuesOfKind(order, kind, i + 1)
\* a declaration the Program holds at most once
DeclaredOnce(order, kind, declared) ==
  ValuesOfKind(order, kind, 1) = IF declared = Undef THEN <<>> ELSE <<declared>>
JustParsed == phase = "idle" /\ runs = 0 /\ bin = NoBin

SourceOrderIsExact ==
  /\ JustParsed => KindsOf(ast.sourceOrder) = KindsOfSource(source)
  /\ IsParsed =>
       /\ DeclaredOnce(ast.sourceOrder, "input", ast.input)
       /\ DeclaredOnce(ast.sourceOrder, "model", ast.model)
       /\ ast.out = Undef => ValuesOfKind(ast.sourceOrder, "out", 1) = <<>>
       /\ ast.out # Undef => ValuesOfKind(ast.sourceOrder, "out", 1) = <<ast.out.v>>
       /\ ValuesOfKind(ast.sourceOrder, "node", 1) = ast.nodes
       /\ ValuesOfKind(ast.sourceOrder, "edge", 1) = ast.edges
       /\ ValuesOfKind(ast.sourceOrder, "cond", 1) = ast.conditions
       /\ ValuesOfKind(ast.sourceOrder, "action", 1) = ast.actions

\* the Program parsed from two node declarations and an %out
SourceOrderIsExactWitness ==
  /\ JustParsed
  /\ KindsOf(ast.sourceOrder) = <<"node", "node", "out">>
  /\ Len(ast.nodes) = 2
  /\ ast.nodes[1].name = "n0" /\ ast.nodes[2].name = "n1"
  /\ ast.out = Str("x")

(***************************************************************************)
(* C29.  Decoding the constant pool that the compiler encoded gives back   *)
(* the same list of values, in the same order and with the same types,     *)
(* for every constant pool a compilation of a parsed Program produces:     *)
(* the constants runBytecode holds after the decode of the compiler's      *)
(* buffer are the list of the compiler's ConstPool.                        *)
(***************************************************************************)
DecodedCompilerPool == phase = "run" /\ verror = "" /\ vbin.consts = bin.consts

ConstPoolRoundTrip == DecodedCompilerPool => consts = PoolOf(ast).list

(***************************************************************************)
(* C30.  While the machine runs a module produced by compileToBytecode, no *)
(* instruction pops an empty operand stack, and the operand stack is empty *)
(* each time execution reaches the first instruction of a statement and    *)
(* when execution ends, whether or not conditional jumps were taken.       *)
(***************************************************************************)
\* the values an instruction pops, lines 269-286
Pops(op) ==
  IF op \in {OpADD, OpSUB, OpMUL, OpDIV, OpCMP_EQ, OpCMP_GE, OpCMP_LE, OpCMP_GT, OpCMP_LT} THEN 2
  ELSE IF op \in {OpSET_CTX, OpMEMBER, OpJUMP_IF_FALSE, OpEMIT_TOP} THEN 1
  ELSE 0
RunsCompiledModule == phase \in {"run", "done"} /\ verror = "" /\ vbin = bin
StatementStarts == { StmtOffset(i) : i \in 1..(Len(ast.sourceOrder) + 1) }

StackDiscipline ==
  RunsCompiledModule =>
    /\ ip < vbin.codeLen => Len(stack) >= Pops(vbin.code[ip + 1])
    /\ ip \in StatementStarts => stack = <<>>
    /\ ip >= vbin.codeLen => stack = <<>>
    /\ phase = "done" => ip = vbin.codeLen

\* `!if x then set z = 10` without an x in the context, followed by another
\* statement: the jump was taken, nothing was bound to z, and the machine
\* stands at the next statement with an empty stack
StackDisciplineWitness ==
  /\ phase = "run" /\ verror = "" /\ vbin = bin
  /\ \E i \in 1..(Len(ast.sourceOrder) - 1) :
       /\ ast.sourceOrder[i] = Action(Cond("x", NoOp, Undef), Set("z", N(10)))
       /\ ip = StmtOffset(i + 1)
       /\ ip < vbin.codeLen
       /\ "z" \notin DOMAIN vctx
  /\ stack = <<>>

====
